---- MODULE Spec2Model ----
(***************************************************************************)
(* Model of the player tracker (src/src/components/Tracker.tsx, db.ts,     *)
(* api.ts, utils.ts): the expiring IndexedDB cache, the four cache-or-     *)
(* fetch retrieval stages, the fold into the player usage matrix, and the  *)
(* session of the App component (mock login, logout, inactivity timer).    *)
(*                                                                         *)
(* Every await of the source is a step boundary.  A step runs from one     *)
(* await to the next, so what the source does between two awaits (React    *)
(* state updates, the continuation of Promise.all, useEffect callbacks     *)
(* flushed after a discrete event) happens in one action.                  *)
(***************************************************************************)
EXTENDS Integers, Sequences, FiniteSets, TLC

(***************************************************************************)
(* Program constants.                                                      *)
(***************************************************************************)
CACHE_DURATION_MS == 3600000
SESSION_DURATION_MS == 1800000
\* the delay of the mocked login: setTimeout(..., 500)
LoginDelay == 500

(***************************************************************************)
(* Bounds of the model.                                                    *)
(***************************************************************************)
\* the clock is sampled around the multiples 0..MaxHour of CACHE_DURATION_MS
MaxHour == 1
\* the remote data source answers with one of the versions 1..MaxVer of its data
MaxVer == 2
\* club searches / team-list loads / analyses that may be in flight at once
MaxSearches == 2
MaxLoads == 2
MaxAnalyses == 1
\* club searches and club selections the user starts in one run
MaxStarts == 2
\* analyses the user starts in one run
MaxRuns == 1
\* longest raw club-search response given to the dedup on its own
MaxRaw == 3
\* timestamps 0..MaxStamp of the entries given to isCacheValid on its own
MaxStamp == 3
\* the session clock is sampled at the multiples 0..MaxWindow of
\* SESSION_DURATION_MS and up to MaxDelay login delays after each
MaxWindow == 2
MaxDelay == 1
\* inactivity expiries after which nobody logs in again
MaxExpiries == 2

VARIABLES
  now,             \* Date.now()
  cache,           \* the IndexedDB object stores: store -> key -> entry
  loading,         \* Tracker state `loading`
  error,           \* Tracker state `error`
  clubQuery,       \* Tracker state `clubQuery`
  seasonId,        \* Tracker state `seasonId`
  clubs,           \* Tracker state `clubs`
  selectedClub,    \* Tracker state `selectedClub`
  allTeams,        \* Tracker state `allTeams`
  selectedTeamIds, \* Tracker state `selectedTeamIds`
  competitionId,   \* Tracker state `competitionId`
  playerUsage,     \* Tracker state `playerUsage`
  debounce,        \* the timer id held by the cleanup of the club-search effect
  sessionArmedAt,  \* when resetSessionTimeout last armed the inactivity timer
  sessionTimeoutRef, \* App ref `sessionTimeoutRef`
  timers,          \* the timers window.setTimeout has pending
  token,           \* App state `token`
  authToken,       \* localStorage item 'authToken'
  loginLoading,    \* App state `loading`
  loginError,      \* App state `error`
  alerts,          \* number of alert() calls so far
  searches,        \* running searchForClubs calls
  loads,           \* running fetchTeams calls
  analyses,        \* running handleFetchPlayerUsage calls
  scope,           \* the part of the tracker a run exercises
  started,         \* number of operations started so far in the run
  fnArg,           \* argument handed to a pure function checked on its own
  fnRes            \* its result

vars == <<now, cache, loading, error, clubQuery, seasonId, clubs,
          selectedClub, allTeams, selectedTeamIds, competitionId, playerUsage,
          debounce, sessionArmedAt, sessionTimeoutRef, timers, token,
          authToken, loginLoading, loginError, alerts, searches, loads,
          analyses, scope, started, fnArg, fnRes>>

trackerVars == <<loading, error, clubQuery, seasonId, clubs, selectedClub,
                 allTeams, selectedTeamIds, competitionId, playerUsage,
                 debounce, sessionArmedAt, sessionTimeoutRef, timers,
                 searches, loads, analyses, started>>

\* the state of App that the tracker never writes
appVars == <<token, authToken, loginLoading, loginError, alerts>>

(***************************************************************************)
(* null, and the values that stand for it where TLC needs one type.        *)
(***************************************************************************)
Null == [null |-> TRUE]
\* `error` is string | null
NoError == "<null>"
\* `competitionId` is number | null
NoCompetition == -1
\* `token` is string | null, and so is localStorage.getItem('authToken')
NoToken == "<null>"

Range(s) == {s[i] : i \in DOMAIN s}

(***************************************************************************)
(* db.ts: the cache.                                                       *)
(***************************************************************************)
Stores == {"club-search", "teams", "match-lists", "match-details"}

CacheItem(key, data, timestamp) ==
  [key |-> key, data |-> data, timestamp |-> timestamp]

\* item ? (Date.now() - item.timestamp) < CACHE_DURATION_MS : false
isCacheValidLe(item, t) ==
  IF item # Null THEN (t - item.timestamp) <= CACHE_DURATION_MS ELSE FALSE

isCacheValid(item, t) ==
  IF item # Null THEN (t - item.timestamp) < CACHE_DURATION_MS ELSE FALSE

(***************************************************************************)
(* The remote data source (spec section 6), an external collaborator: what *)
(* it serves at version ver of its data.  Which version answers a request  *)
(* is not determined.  Odd and even versions differ, so that a re-fetch    *)
(* can be told from the cached copy.                                       *)
(***************************************************************************)
ClubIds == {1, 2}
TeamIds == {1, 2, 3}
CompetitionIds == {1, 2}
MatchIds == {1, 2, 3}
\* 9 is a team of another club, never selectable
Vers == 1..MaxVer
Odd(ver) == ver % 2 = 1

ClubName(c) == IF c = 1 THEN "Nesodden IF" ELSE "Nesoya IL"
Club(c) == [id |-> c, name |-> ClubName(c)]

Competition(k) == [id |-> k, name |-> IF k = 1 THEN "Serie" ELSE "Cup"]
ClubOfTeam(t) == IF t = 3 THEN 2 ELSE 1
TeamName(t) == CASE t = 1 -> "G16 1" [] t = 2 -> "G16 2" [] t = 3 -> "J15"
                 [] OTHER -> "Gjest"
TeamCompetitions(t) ==
  CASE t = 1 -> <<Competition(1)>>
    [] t = 2 -> <<Competition(1), Competition(2)>>
    [] OTHER -> <<Competition(2)>>
Team(t) ==
  [id |-> t, name |-> TeamName(t), clubId |-> ClubOfTeam(t),
   clubName |-> ClubName(ClubOfTeam(t)), competitions |-> TeamCompetitions(t),
   ageCategory |-> [name |-> IF t = 3 THEN "J15" ELSE "G16"],
   genre |-> [name |-> IF t = 3 THEN "Jenter" ELSE "Gutter"]]

\* GET /api/Teams?clubId=
RemoteTeams(clubId, ver) ==
  IF clubId = 1
  THEN (IF Odd(ver) THEN <<Team(1), Team(2)>> ELSE <<Team(2), Team(1)>>)
  ELSE <<Team(3)>>

\* GET /api/Matches?teamId=&competitionId=
RemoteMatchList(teamId, compId, ver) ==
  CASE teamId = 1 /\ compId = 1 ->
         IF Odd(ver) THEN <<[id |-> 1], [id |-> 2]>> ELSE <<[id |-> 1]>>
    [] teamId = 2 /\ compId = 1 -> <<[id |-> 1]>>
    [] teamId = 3 /\ compId = 2 -> <<[id |-> 3], [id |-> 3]>>
    [] OTHER -> <<>>

Player(p, first, last) == [personId |-> p, firstName |-> first, lastName |-> last]
Side(t, players) == [id |-> t, name |-> TeamName(t), players |-> players]

\* GET /api/Matches/{id}
RemoteMatch(id, ver) ==
  CASE id = 1 ->
         [id |-> 1, week |-> 10,
          homeTeam |-> Side(1, <<Player(1, "Ola", "Li"), Player(2, "Per", "Aas")>>),
          awayTeam |-> Side(2, <<Player(3, "Jon", "Dahl")>>)]
    [] id = 2 ->
         [id |-> 2, week |-> IF Odd(ver) THEN 9 ELSE 11,
          homeTeam |-> Side(9, <<Player(4, "Nils", "Berg")>>),
          awayTeam |-> Side(IF Odd(ver) THEN 1 ELSE 2,
                            <<Player(1, "Ola", "Lie"), Player(3, "Jon", "Dahl")>>)]
    [] OTHER ->
         [id |-> 3, week |-> 3,
          homeTeam |-> Side(3, <<Player(5, "Eva", "Moe")>>),
          awayTeam |-> Side(9, <<>>)]

\* POST /TournamentSearchPage/SearchClubs: possible answers to a search
RawClub(value, label) == [value |-> value, label |-> label]
RawSearch(ver) ==
  IF Odd(ver)
  THEN <<RawClub(1, "Nesodden IF"), RawClub(2, "Nesoya IL")>>
  ELSE <<RawClub(1, "Nesodden"), RawClub(0, "Ukjent"), RawClub(2, "Nesoya IL"),
         RawClub(1, "Nesodden IF"), RawClub(2, " ")>>

(***************************************************************************)
(* Tracker.tsx, searchForClubs: filter and dedup of the raw search result. *)
(***************************************************************************)
\* String.prototype.trim on the labels used here
Trim(label) == IF label \in {" ", "  "} THEN "" ELSE label

\* a JS Map as the sequence of its entries in insertion order
MapHas(m, k) == \E i \in DOMAIN m : m[i].key = k
\* Map.prototype.set: a present key keeps its place and takes the new value
MapSet(m, k, v) ==
  IF MapHas(m, k)
  THEN [i \in DOMAIN m |-> IF m[i].key = k THEN [key |-> k, value |-> v] ELSE m[i]]
  ELSE Append(m, [key |-> k, value |-> v])

(***************************************************************************)
(* api.ts: the request adapter.  An object is the sequence of its own      *)
(* enumerable properties in insertion order; a HeadersInit value is a      *)
(* plain object ("record"), a Headers instance ("Headers"), an array of    *)
(* name/value pairs ("array") or missing ("undefined").                    *)
(***************************************************************************)
HeadersInit(kind, entries) == [kind |-> kind, entries |-> entries]

\* the own enumerable properties an object spread copies: the members of a
\* plain object, the indices of an array (each holding a pair, which reads
\* as its elements joined by ','), none of a Headers instance or undefined
OwnProperties(headers) ==
  CASE headers.kind = "record" -> headers.entries
    [] headers.kind = "array" ->
         [i \in DOMAIN headers.entries |->
            [key |-> ToString(i - 1),
             value |-> headers.entries[i].key \o "," \o headers.entries[i].value]]
    [] OTHER -> <<>>

\* { ...source } onto target, property by property
RECURSIVE Spread(_, _)
Spread(target, props) ==
  IF props = <<>> THEN target
  ELSE Spread(MapSet(target, Head(props).key, Head(props).value), Tail(props))

\* apiFetch (lines 2-11): the url and the init object handed to fetch
apiFetch(url, bearer, options) ==
  [url |-> url,
   method |-> options.method,
   headers |-> MapSet(MapSet(Spread(<<>>, OwnProperties(options.headers)),
                             "Authorization", "Bearer " \o bearer),
                      "Content-Type", "application/json")]

\* header names are case-insensitive; a header list holds them in lower case
LowerCase(name) ==
  CASE name = "Authorization" -> "authorization"
    [] name = "Content-Type" -> "content-type"
    [] name = "X-Trace" -> "x-trace"
    [] OTHER -> name

\* new Headers(init.headers): one header appended per member
HeaderList(members) ==
  [i \in DOMAIN members |->
     [name |-> LowerCase(members[i].key), value |-> members[i].value]]

\* the values a header list holds under a name, in order (Headers.get joins
\* them with ', ')
RECURSIVE HeaderValues(_, _)
HeaderValues(list, name) ==
  IF list = <<>> THEN <<>>
  ELSE (IF Head(list).name = name THEN <<Head(list).value>> ELSE <<>>)
         \o HeaderValues(Tail(list), name)

\* fetch(url, init): the request that goes out
Request(call) ==
  [url |-> call.url, method |-> call.method, headers |-> HeaderList(call.headers)]

\* the filter without the trim test (a faulty variant)
KeepsClubUntrimmed(club) == club.value # 0 /\ club.label # ""

\* club.value && club.label && club.label.trim() !== ''
KeepsClub(club) == club.value # 0 /\ club.label # "" /\ Trim(club.label) # ""

\* the Map with the first entry of an id kept (a faulty variant)
RECURSIVE uniqueClubsFirst(_)
uniqueClubsFirst(rawData) ==
  IF rawData = <<>> THEN <<>>
  ELSE LET m == uniqueClubsFirst(SubSeq(rawData, 1, Len(rawData) - 1))
           club == rawData[Len(rawData)]
       IN IF KeepsClub(club) /\ ~MapHas(m, club.value)
          THEN MapSet(m, club.value, club) ELSE m

\* rawData.forEach(club => { if (...) uniqueClubs.set(club.value, club) })
RECURSIVE uniqueClubs(_)
uniqueClubs(rawData) ==
  IF rawData = <<>> THEN <<>>
  ELSE LET m == uniqueClubs(SubSeq(rawData, 1, Len(rawData) - 1))
           club == rawData[Len(rawData)]
       IN IF KeepsClub(club) THEN MapSet(m, club.value, club) ELSE m

\* Array.from(uniqueClubs.values()).map(club => ({id, name}))
ClubsFromRaw(rawData) ==
  LET m == uniqueClubs(rawData)
  IN [i \in DOMAIN m |-> [id |-> m[i].value.value, name |-> m[i].value.label]]

(***************************************************************************)
(* utils.ts.  The season ids offered by the season select.                 *)
(***************************************************************************)
initialSeasonId == "109"
SeasonIds == {initialSeasonId, "108"}

(***************************************************************************)
(* utils.ts 4-5: the season codec.  A JS string is here the sequence of    *)
(* its characters.  A JS number is the record of a significand and a       *)
(* decimal exponent: Num(n, 0) is the integer n, held exactly, and         *)
(* Num(1, e) with e >= ExponentFrom is the double 10^e, which the integers *)
(* of the model checker cannot hold.                                       *)
(***************************************************************************)
\* Number.prototype.toString writes a number from 10^21 on with an exponent
ExponentFrom == 21
\* the offset between a year and its season id
SeasonOffset == 1917

Num(sig, exp) == [nan |-> FALSE, sig |-> sig, exp |-> exp]
NaN == [nan |-> TRUE, sig |-> 0, exp |-> 0]

DigitChars == <<"0", "1", "2", "3", "4", "5", "6", "7", "8", "9">>
IsDigit(c) == \E d \in DOMAIN DigitChars : DigitChars[d] = c
DigitValue(c) == (CHOOSE d \in DOMAIN DigitChars : DigitChars[d] = c) - 1

RECURSIVE NatToChars(_)
NatToChars(n) ==
  IF n < 10 THEN <<DigitChars[n + 1]>>
  ELSE Append(NatToChars(n \div 10), DigitChars[(n % 10) + 1])

\* Number.prototype.toString(): decimal digits with a leading '-' below
\* zero; from 10^21 on the significand, 'e+' and the exponent
NumberToString(n) ==
  IF n.nan THEN <<"N", "a", "N">>
  ELSE IF n.exp >= ExponentFrom
  THEN NatToChars(n.sig) \o <<"e", "+">> \o NatToChars(n.exp)
  ELSE IF n.sig < 0 THEN <<"-">> \o NatToChars(0 - n.sig)
  ELSE NatToChars(n.sig)

\* the longest prefix of digits of a string
RECURSIVE DigitPrefix(_)
DigitPrefix(str) ==
  IF str = <<>> \/ ~IsDigit(Head(str)) THEN <<>>
  ELSE <<Head(str)>> \o DigitPrefix(Tail(str))

RECURSIVE CharsToNat(_)
CharsToNat(digits) ==
  IF digits = <<>> THEN 0
  ELSE 10 * CharsToNat(SubSeq(digits, 1, Len(digits) - 1))
       + DigitValue(digits[Len(digits)])

\* parseInt that reads no sign (a faulty variant)
parseIntUnsigned(str) ==
  LET digits == DigitPrefix(IF str # <<>> /\ Head(str) \in {"-", "+"}
                            THEN Tail(str) ELSE str)
  IN IF digits = <<>> THEN NaN ELSE Num(CharsToNat(digits), 0)

\* parseInt(string): an optional sign, then the digits up to the first
\* character that is none; NaN without a digit
parseInt(str) ==
  LET negative == str # <<>> /\ Head(str) = "-"
      body == IF str # <<>> /\ Head(str) \in {"-", "+"} THEN Tail(str) ELSE str
      digits == DigitPrefix(body)
  IN IF digits = <<>> THEN NaN
     ELSE Num(IF negative THEN 0 - CharsToNat(digits) ELSE CharsToNat(digits), 0)

\* n + k for an integer k below half the distance between 10^21 and its
\* neighbours among the doubles: the sum rounds to n from 10^21 on
Plus(n, k) ==
  IF n.nan THEN NaN
  ELSE IF n.exp = 0 THEN Num(n.sig + k, 0) ELSE n

\* (year - 1917).toString()
seasonIdForYear(year) == NumberToString(Plus(year, 0 - SeasonOffset))
\* parseInt(seasonId) + 1917
yearForSeasonId(season) == Plus(parseInt(season), SeasonOffset)

(***************************************************************************)
(* The keys of the four object stores.  The source builds the string       *)
(* `${a}-${b}` for club-search and match-lists; the second part holds no   *)
(* hyphen (a season id, a competition id), so the string and the pair      *)
(* <<a, b>> determine each other and the pair stands for the string.       *)
(***************************************************************************)
Queries == {"", "ne", "nes"}
KeysOf(store) ==
  CASE store = "club-search" -> (Queries \ {""}) \X SeasonIds
    [] store = "teams" -> ClubIds
    [] store = "match-lists" -> TeamIds \X CompetitionIds
    [] store = "match-details" -> MatchIds

\* getFromDB: request.result || null
getFromDB(storeName, key) == cache[storeName][key]

\* store.add(item), which keeps an entry that is there (a faulty variant)
setToDBAdd(storeName, item) ==
  IF cache[storeName][item.key] # Null THEN cache
  ELSE [cache EXCEPT ![storeName][item.key] = item]

\* setToDB: store.put(item), an upsert by item.key
setToDB(storeName, item) ==
  [cache EXCEPT ![storeName][item.key] = item]

(***************************************************************************)
(* Outcomes of the environment: a request ends with an ok response, a      *)
(* non-ok response or a transport failure; an IndexedDB request succeeds   *)
(* or fails.                                                               *)
(***************************************************************************)
Responses == {"ok", "status", "reject"}
TransportError == "TypeError: Failed to fetch"
StorageError == "DOMException"

(***************************************************************************)
(* Tracker.tsx: the running asynchronous calls.  Each holds the values its *)
(* closure captured and stands at one of its awaits.                       *)
(***************************************************************************)
SearchSlots == 1..MaxSearches
LoadSlots == 1..MaxLoads
AnalysisSlots == 1..MaxAnalyses

IdleSearch == [pc |-> "idle", query |-> "", season |-> "", data |-> <<>>, ts |-> 0]
IdleLoad == [pc |-> "idle", club |-> Null, data |-> <<>>, ts |-> 0]

\* one analysis holds the branches of its current fan-out stage: per team
\* in stage C, per match id in stage D
IdleAnalysis ==
  [pc |-> "idle", stage |-> "C", teams |-> <<>>, comp |-> 0, keys |-> <<>>,
   br |-> <<>>]
\* the value a branch has resolved to
Resolved(value) == [value |-> value]
NewBranch == [pc |-> "get", data |-> Null, ts |-> 0]
Pending(b) == b.pc \in {"get", "fetch", "put"}

FreeSlot(ops) == CHOOSE i \in DOMAIN ops : ops[i].pc = "idle" /\
                   \A j \in DOMAIN ops : ops[j].pc = "idle" => i <= j
HasFreeSlot(ops) == \E i \in DOMAIN ops : ops[i].pc = "idle"

\* setLoading(prev => ({ ...prev, [k]: v }))
setLoading(k, v) == [loading EXCEPT ![k] = v]

(***************************************************************************)
(* window.setTimeout and clearTimeout.  `timers` holds the timers that are *)
(* scheduled and have neither run nor been cleared.  Timer ids are never   *)
(* reused in a browser, so clearing a timer that has run is a no-op; a     *)
(* reference to such a timer is kept here as 0, and a new timer takes the  *)
(* least id that no pending timer has.                                     *)
(***************************************************************************)
Timer(id, kind, due, arg) ==
  [id |-> id, kind |-> kind, due |-> due, arg |-> arg]
NewTimerId(tbl) ==
  CHOOSE n \in 1..(Cardinality(tbl) + 1) :
    /\ \A t \in tbl : t.id # n
    /\ \A m \in 1..(n - 1) : \E t \in tbl : t.id = m
setTimeout(tbl, kind, due, arg) ==
  tbl \cup {Timer(NewTimerId(tbl), kind, due, arg)}
clearTimeout(tbl, id) == {t \in tbl : t.id # id}
PendingOf(tbl, kind) == {t \in tbl : t.kind = kind}
\* what a reference to timer id holds once timer t has run
AfterRun(id, t) == IF id = t.id THEN 0 ELSE id

\* resetSessionTimeout without the clearTimeout (a faulty variant)
resetSessionTimeoutKeeping(tbl) ==
  /\ timers' = setTimeout(tbl, "session", now + SESSION_DURATION_MS, Null)
  /\ sessionTimeoutRef' = NewTimerId(tbl)
  /\ sessionArmedAt' = now

\* resetSessionTimeout (utils.ts 34-44), the onActivity of the tracker, on
\* the timer table tbl
resetSessionTimeout(tbl) ==
  LET cleared == IF sessionTimeoutRef # 0
                 THEN clearTimeout(tbl, sessionTimeoutRef) ELSE tbl
  IN /\ timers' = setTimeout(cleared, "session", now + SESSION_DURATION_MS, Null)
     /\ sessionTimeoutRef' = NewTimerId(cleared)
     /\ sessionArmedAt' = now

(***************************************************************************)
(* The environment: time passes.                                           *)
(***************************************************************************)
ClockSamples ==
  {h * CACHE_DURATION_MS : h \in 0..MaxHour}

Tick ==
  /\ \E t \in ClockSamples : t > now /\ now' = t
  /\ UNCHANGED <<cache, trackerVars, fnArg, fnRes, appVars>>

(***************************************************************************)
(* Stage A: club search.                                                   *)
(***************************************************************************)
\* searchForClubs without its onActivity() (a faulty variant)
searchForClubsSilent(q, s, tbl) ==
  IF q = ""
  THEN /\ timers' = tbl
       /\ UNCHANGED <<sessionArmedAt, sessionTimeoutRef, loading, error,
                      searches, started>>
  ELSE /\ HasFreeSlot(searches)
       /\ started < MaxStarts
       /\ started' = started + 1
       /\ timers' = tbl
       /\ UNCHANGED <<sessionArmedAt, sessionTimeoutRef>>
       /\ loading' = setLoading("clubs", TRUE)
       /\ error' = NoError
       /\ searches' = [searches EXCEPT ![FreeSlot(searches)] =
                         [pc |-> "get", query |-> q, season |-> s,
                          data |-> <<>>, ts |-> 0]]

\* searchForClubs without its setError(null) (a faulty variant)
searchForClubsKeepingError(q, s, tbl) ==
  IF q = ""
  THEN /\ timers' = tbl
       /\ UNCHANGED <<sessionArmedAt, sessionTimeoutRef, loading, error,
                      searches, started>>
  ELSE /\ HasFreeSlot(searches)
       /\ started < MaxStarts
       /\ started' = started + 1
       /\ resetSessionTimeout(tbl)
       /\ loading' = setLoading("clubs", TRUE)
       /\ error' = error
       /\ searches' = [searches EXCEPT ![FreeSlot(searches)] =
                         [pc |-> "get", query |-> q, season |-> s,
                          data |-> <<>>, ts |-> 0]]

\* searchForClubs up to its first await (lines 37-47), for a closure that
\* captured clubQuery = q and seasonId = s, on the timer table tbl
searchForClubs(q, s, tbl) ==
  IF q = ""
  THEN /\ timers' = tbl
       /\ UNCHANGED <<sessionArmedAt, sessionTimeoutRef, loading, error,
                      searches, started>>
  ELSE /\ HasFreeSlot(searches)
       /\ started < MaxStarts
       /\ started' = started + 1
       /\ resetSessionTimeout(tbl)
       /\ loading' = setLoading("clubs", TRUE)
       /\ error' = NoError
       /\ searches' = [searches EXCEPT ![FreeSlot(searches)] =
                         [pc |-> "get", query |-> q, season |-> s,
                          data |-> <<>>, ts |-> 0]]

\* the effect without its cleanup (a faulty variant)
DebounceEffectKeeping(q, s) ==
  IF Len(q) < 3
  THEN clubs' = <<>> /\ debounce' = 0 /\ timers' = timers
  ELSE /\ clubs' = clubs
       /\ debounce' = NewTimerId(timers)
       /\ timers' = setTimeout(timers, "debounce", now,
                               [query |-> q, season |-> s])

\* the effect of lines 105-116 run again for a render with clubQuery = q and
\* seasonId = s: the cleanup of the previous run, then the new run.  The
\* 300 ms of the timer are below the resolution of the sampled clock, so
\* the timer is due at once.
DebounceEffect(q, s) ==
  LET cleared == clearTimeout(timers, debounce)
  IN IF Len(q) < 3
     THEN clubs' = <<>> /\ debounce' = 0 /\ timers' = cleared
     ELSE /\ clubs' = clubs
          /\ debounce' = NewTimerId(cleared)
          /\ timers' = setTimeout(cleared, "debounce", now,
                                  [query |-> q, season |-> s])

\* onChange of the club input
SetClubQuery(q) ==
  /\ q # clubQuery
  /\ clubQuery' = q
  /\ DebounceEffect(q, seasonId)
  /\ UNCHANGED <<now, cache, loading, error, seasonId, selectedClub,
                 allTeams, selectedTeamIds, competitionId, playerUsage,
                 sessionArmedAt, sessionTimeoutRef, searches, loads, analyses,
                 started, fnArg, fnRes, appVars>>

\* onChange of the season select (lines 309-319)
setSeasonId(s) ==
  /\ s # seasonId
  /\ seasonId' = s
  /\ DebounceEffect(clubQuery, s)
  /\ UNCHANGED <<now, cache, loading, error, clubQuery, selectedClub,
                 allTeams, selectedTeamIds, competitionId, playerUsage,
                 sessionArmedAt, sessionTimeoutRef, searches, loads, analyses,
                 started, fnArg, fnRes, appVars>>

\* a debounce timer runs: setTimeout(() => searchForClubs(), 300)
DebounceFire ==
  \E t \in PendingOf(timers, "debounce") :
    /\ now >= t.due
    /\ debounce' = AfterRun(debounce, t)
    /\ searchForClubs(t.arg.query, t.arg.season, clearTimeout(timers, t.id))
    /\ UNCHANGED <<now, cache, clubQuery, seasonId, clubs, selectedClub,
                   allTeams, selectedTeamIds, competitionId, playerUsage,
                   loads, analyses, fnArg, fnRes, appVars>>

\* submit of the search form; the button is disabled={!clubQuery || loading.clubs}
handleSearchClubs ==
  /\ clubQuery # "" /\ ~loading.clubs
  /\ searchForClubs(clubQuery, seasonId, timers)
  /\ UNCHANGED <<now, cache, clubQuery, seasonId, clubs, selectedClub,
                 allTeams, selectedTeamIds, competitionId, playerUsage, debounce,
                 loads, analyses, fnArg, fnRes, appVars>>

\* catch and finally of searchForClubs (lines 90-95)
SearchFails(i, message) ==
  /\ error' = message
  /\ clubs' = <<>>
  /\ loading' = setLoading("clubs", FALSE)
  /\ searches' = [searches EXCEPT ![i] = IdleSearch]
  /\ UNCHANGED cache

\* a lookup that goes on to the request when the cache cannot be read (a
\* faulty variant)
SearchGetFallback(i, dbOk) ==
  LET op == searches[i]
      cached == getFromDB("club-search", <<op.query, op.season>>)
  IN /\ op.pc = "get"
     /\ IF dbOk /\ isCacheValid(cached, now)
        THEN /\ clubs' = cached.data
             /\ loading' = setLoading("clubs", FALSE)
             /\ searches' = [searches EXCEPT ![i] = IdleSearch]
             /\ UNCHANGED <<error, cache>>
        ELSE /\ searches' = [searches EXCEPT ![i].pc = "fetch"]
             /\ UNCHANGED <<clubs, loading, error, cache>>
     /\ UNCHANGED <<now, clubQuery, seasonId, selectedClub, allTeams,
                    selectedTeamIds, competitionId, playerUsage, debounce,
                    sessionArmedAt, sessionTimeoutRef, timers, loads, analyses,
                    started, fnArg, fnRes, appVars>>

\* getFromDB settles (lines 44-51)
SearchGet(i, dbOk) ==
  LET op == searches[i]
      cached == getFromDB("club-search", <<op.query, op.season>>)
  IN /\ op.pc = "get"
     /\ IF ~dbOk THEN SearchFails(i, StorageError)
        ELSE IF isCacheValid(cached, now)
        THEN /\ clubs' = cached.data
             /\ loading' = setLoading("clubs", FALSE)
             /\ searches' = [searches EXCEPT ![i] = IdleSearch]
             /\ UNCHANGED <<error, cache>>
        ELSE /\ searches' = [searches EXCEPT ![i].pc = "fetch"]
             /\ UNCHANGED <<clubs, loading, error, cache>>
     /\ UNCHANGED <<now, clubQuery, seasonId, selectedClub, allTeams,
                    selectedTeamIds, competitionId, playerUsage, debounce,
                    sessionArmedAt, sessionTimeoutRef, timers, loads, analyses, started, fnArg, fnRes, appVars>>

\* the response of the search request arrives (lines 57-89, to the await of setToDB)
SearchResponse(i, response, ver) ==
  LET op == searches[i]
      data == ClubsFromRaw(RawSearch(ver))
  IN /\ op.pc = "fetch"
     /\ IF response = "ok"
        THEN /\ clubs' = data
             /\ searches' = [searches EXCEPT ![i].pc = "put", ![i].data = data,
                                             ![i].ts = now]
             /\ UNCHANGED <<loading, error, cache>>
        ELSE SearchFails(i, IF response = "status"
                            THEN "Failed to fetch clubs. Status" ELSE TransportError)
     /\ UNCHANGED <<now, clubQuery, seasonId, selectedClub, allTeams,
                    selectedTeamIds, competitionId, playerUsage, debounce,
                    sessionArmedAt, sessionTimeoutRef, timers, loads, analyses, started, fnArg, fnRes, appVars>>

\* setToDB settles (lines 85-95)
SearchPut(i, dbOk) ==
  LET op == searches[i]
  IN /\ op.pc = "put"
     /\ IF dbOk
        THEN /\ cache' = setToDB("club-search",
                           CacheItem(<<op.query, op.season>>, op.data, op.ts))
             /\ loading' = setLoading("clubs", FALSE)
             /\ searches' = [searches EXCEPT ![i] = IdleSearch]
             /\ UNCHANGED <<clubs, error>>
        ELSE SearchFails(i, StorageError)
     /\ UNCHANGED <<now, clubQuery, seasonId, selectedClub, allTeams,
                    selectedTeamIds, competitionId, playerUsage, debounce,
                    sessionArmedAt, sessionTimeoutRef, timers, loads, analyses, started, fnArg, fnRes, appVars>>

(***************************************************************************)
(* Stage B: team listing, the effect of lines 214-240.                     *)
(***************************************************************************)
\* a catch that stores the empty list for the club (a faulty variant)
LoadFailsStoring(i, message) ==
  /\ error' = message
  /\ loading' = setLoading("teams", FALSE)
  /\ loads' = [loads EXCEPT ![i] = IdleLoad]
  /\ cache' = setToDB("teams", CacheItem(loads[i].club.id, <<>>, now))
  /\ UNCHANGED allTeams

\* catch and finally of fetchTeams (lines 233-237)
LoadFails(i, message) ==
  /\ error' = message
  /\ loading' = setLoading("teams", FALSE)
  /\ loads' = [loads EXCEPT ![i] = IdleLoad]
  /\ UNCHANGED <<allTeams, cache>>

\* getFromDB settles (lines 222-226)
LoadGet(i, dbOk) ==
  LET op == loads[i]
      cached == getFromDB("teams", op.club.id)
  IN /\ op.pc = "get"
     /\ IF ~dbOk THEN LoadFails(i, StorageError)
        ELSE IF isCacheValid(cached, now)
        THEN /\ allTeams' = cached.data
             /\ loading' = setLoading("teams", FALSE)
             /\ loads' = [loads EXCEPT ![i] = IdleLoad]
             /\ UNCHANGED <<error, cache>>
        ELSE /\ loads' = [loads EXCEPT ![i].pc = "fetch"]
             /\ UNCHANGED <<allTeams, loading, error, cache>>
     /\ UNCHANGED <<now, clubQuery, seasonId, clubs, selectedClub,
                    selectedTeamIds, competitionId, playerUsage, debounce,
                    sessionArmedAt, sessionTimeoutRef, timers, searches, analyses, started, fnArg, fnRes, appVars>>

\* the response of GET /api/Teams arrives (lines 228-232, to the await of setToDB)
LoadResponse(i, response, ver) ==
  LET op == loads[i]
      data == RemoteTeams(op.club.id, ver)
  IN /\ op.pc = "fetch"
     /\ IF response = "ok"
        THEN /\ allTeams' = data
             /\ loads' = [loads EXCEPT ![i].pc = "put", ![i].data = data,
                                       ![i].ts = now]
             /\ UNCHANGED <<loading, error, cache>>
        ELSE LoadFails(i, IF response = "status"
                          THEN "Failed to fetch teams." ELSE TransportError)
     /\ UNCHANGED <<now, clubQuery, seasonId, clubs, selectedClub,
                    selectedTeamIds, competitionId, playerUsage, debounce,
                    sessionArmedAt, sessionTimeoutRef, timers, searches, analyses, started, fnArg, fnRes, appVars>>

\* setToDB settles (lines 232-237)
LoadPut(i, dbOk) ==
  LET op == loads[i]
  IN /\ op.pc = "put"
     /\ IF dbOk
        THEN /\ cache' = setToDB("teams", CacheItem(op.club.id, op.data, op.ts))
             /\ loading' = setLoading("teams", FALSE)
             /\ loads' = [loads EXCEPT ![i] = IdleLoad]
             /\ UNCHANGED <<allTeams, error>>
        ELSE LoadFails(i, StorageError)
     /\ UNCHANGED <<now, clubQuery, seasonId, clubs, selectedClub,
                    selectedTeamIds, competitionId, playerUsage, debounce,
                    sessionArmedAt, sessionTimeoutRef, timers, searches, analyses, started, fnArg, fnRes, appVars>>

(***************************************************************************)
(* Club selection.                                                         *)
(***************************************************************************)
\* handleSelectClub (lines 118-124), followed by the effects its state
\* changes trigger: the club-search effect (105-116) clears the debounce
\* timer, fetchTeams starts (214-240), competitionId is reset (268-270).
\* A club is selected from the rendered list `clubs`.
handleSelectClub(i) ==
  /\ i \in DOMAIN clubs
  /\ HasFreeSlot(loads)
  /\ started < MaxStarts
  /\ started' = started + 1
  /\ selectedClub' = clubs[i]
  /\ clubs' = <<>>
  /\ clubQuery' = ""
  /\ playerUsage' = Null
  /\ selectedTeamIds' = <<>>
  /\ debounce' = 0
  /\ competitionId' = NoCompetition
  /\ resetSessionTimeout(clearTimeout(timers, debounce))
  /\ loading' = setLoading("teams", TRUE)
  /\ error' = NoError
  /\ loads' = [loads EXCEPT ![FreeSlot(loads)] =
                 [pc |-> "get", club |-> clubs[i], data |-> <<>>, ts |-> 0]]
  /\ UNCHANGED <<now, cache, seasonId, allTeams, searches, analyses,
                 fnArg, fnRes, appVars>>

(***************************************************************************)
(* Team and competition selection.                                         *)
(***************************************************************************)
\* a JS Set as the sequence of its members in insertion order
SetHas(set, x) == \E i \in DOMAIN set : set[i] = x
SetAdd(set, x) == IF SetHas(set, x) THEN set ELSE Append(set, x)
SetDelete(set, x) == SelectSeq(set, LAMBDA y : y # x)

\* !value for a number | null
Falsy(n) == n = NoCompetition \/ n = 0

\* the teams rendered as checkboxes: filteredTeams with no filter set
filteredTeams == allTeams

\* handleTeamSelection (lines 202-212); the checkboxes are rendered when a
\* club is selected and loading.teams is false
handleTeamSelection(teamId) ==
  /\ selectedClub # Null /\ ~loading.teams
  /\ \E i \in DOMAIN filteredTeams : filteredTeams[i].id = teamId
  /\ selectedTeamIds' = IF SetHas(selectedTeamIds, teamId)
                        THEN SetDelete(selectedTeamIds, teamId)
                        ELSE SetAdd(selectedTeamIds, teamId)
  /\ UNCHANGED <<now, cache, loading, error, clubQuery, seasonId,
                 clubs, selectedClub, allTeams, competitionId, playerUsage,
                 debounce, sessionArmedAt, sessionTimeoutRef, timers, searches, loads, analyses,
                 started, fnArg, fnRes, appVars>>

\* Array.prototype.flat
RECURSIVE Flat(_)
Flat(lists) == IF lists = <<>> THEN <<>> ELSE Head(lists) \o Flat(Tail(lists))

\* a.name.localeCompare(b.name) < 0 for the competition names served here
Collation == <<"Cup", "Serie">>
NameRank(name) == CHOOSE r \in DOMAIN Collation : Collation[r] = name
ByName(options) ==
  SortSeq(options, LAMBDA a, b : NameRank(a.name) < NameRank(b.name))

\* Array.from(map.entries()).map(([id, name]) => ({id, name}))
OptionsOf(map) == [i \in DOMAIN map |-> [id |-> map[i].key, name |-> map[i].value]]

\* teams.flatMap(t => t.competitions)
FlatCompetitions(teams) == Flat([i \in DOMAIN teams |-> teams[i].competitions])

\* cs.forEach(c => map.set(c.id, c.name))
RECURSIVE SetEach(_, _)
SetEach(map, cs) ==
  IF cs = <<>> THEN map
  ELSE SetEach(MapSet(map, Head(cs).id, Head(cs).name), Tail(cs))

\* cs.forEach(c => { if (!map.has(c.id)) map.set(c.id, c.name) })
RECURSIVE SetEachNew(_, _)
SetEachNew(map, cs) ==
  IF cs = <<>> THEN map
  ELSE SetEachNew(IF MapHas(map, Head(cs).id) THEN map
                  ELSE MapSet(map, Head(cs).id, Head(cs).name), Tail(cs))

\* competitionOptions (lines 245-264)
competitionOptions == ByName(OptionsOf(SetEachNew(<<>>, FlatCompetitions(allTeams))))

\* the competitions every selected team has (a faulty variant)
selectedTeamsCompetitionsCommon ==
  IF Len(selectedTeamIds) = 0 THEN competitionOptions
  ELSE LET selected == SelectSeq(allTeams, LAMBDA t : SetHas(selectedTeamIds, t.id))
           all == OptionsOf(SetEach(<<>>, FlatCompetitions(selected)))
       IN ByName(SelectSeq(all, LAMBDA c :
                   \A i \in DOMAIN selected :
                     \E j \in DOMAIN selected[i].competitions :
                       selected[i].competitions[j].id = c.id))

\* selectedTeamsCompetitions (lines 272-283)
selectedTeamsCompetitions ==
  IF Len(selectedTeamIds) = 0 THEN competitionOptions
  ELSE LET teamCompetitions ==
             FlatCompetitions(
               SelectSeq(allTeams, LAMBDA t : SetHas(selectedTeamIds, t.id)))
       IN ByName(OptionsOf(SetEach(<<>>, teamCompetitions)))

\* selectedTeamsCompetitions (lines 272-283): ids of the offered competitions
selectedTeamsCompetitionIds ==
  {c \in CompetitionIds :
     \E i \in DOMAIN allTeams :
       /\ Len(selectedTeamIds) = 0 \/ SetHas(selectedTeamIds, allTeams[i].id)
       /\ \E j \in DOMAIN allTeams[i].competitions :
            allTeams[i].competitions[j].id = c}

\* onChange of the competition select (line 390): Number(e.target.value);
\* the select is rendered when a team is selected, disabled without options;
\* the first option has the value ''
setCompetitionId(value) ==
  /\ Len(selectedTeamIds) > 0
  /\ selectedTeamsCompetitionIds # {}
  /\ value \in selectedTeamsCompetitionIds \cup {0}
  /\ competitionId' = value
  /\ UNCHANGED <<now, cache, loading, error, clubQuery, seasonId,
                 clubs, selectedClub, allTeams, selectedTeamIds, playerUsage,
                 debounce, sessionArmedAt, sessionTimeoutRef, timers, searches, loads, analyses,
                 started, fnArg, fnRes, appVars>>

(***************************************************************************)
(* The fold of the match details into the usage matrix (lines 172-193).    *)
(***************************************************************************)
\* the result left unset (a faulty variant)
UnsetUsage == Null

\* { players: {}, weeks: [], usage: {} } (line 155)
EmptyUsage == [players |-> <<>>, weeks |-> <<>>, usage |-> <<>>]

\* obj[k] = v on a JS object
ObjSet(obj, k, v) ==
  [x \in DOMAIN obj \cup {k} |-> IF x = k THEN v ELSE obj[x]]

\* `Uke ${week}`
WeekLabel(week) == "Uke " \o ToString(week)

\* the name registered at every occurrence (a faulty variant)
AddPlayerLast(acc, player, week, team) ==
  LET playerId == ToString(player.personId)
      fresh == playerId \notin DOMAIN acc.players
      usage == IF fresh THEN ObjSet(acc.usage, playerId, <<>>) ELSE acc.usage
  IN [acc EXCEPT !.players = ObjSet(acc.players, playerId,
                                    player.firstName \o " " \o player.lastName),
                 !.usage = ObjSet(usage, playerId,
                                  ObjSet(usage[playerId], WeekLabel(week), team.name))]

\* the body of team.players.forEach (lines 183-188)
AddPlayer(acc, player, week, team) ==
  LET playerId == ToString(player.personId)
      fresh == playerId \notin DOMAIN acc.players
      players == IF fresh
                 THEN ObjSet(acc.players, playerId,
                             player.firstName \o " " \o player.lastName)
                 ELSE acc.players
      usage == IF fresh THEN ObjSet(acc.usage, playerId, <<>>) ELSE acc.usage
  IN [acc EXCEPT !.players = players,
                 !.usage = ObjSet(usage, playerId,
                                  ObjSet(usage[playerId], WeekLabel(week), team.name))]

RECURSIVE AddPlayers(_, _, _, _)
AddPlayers(acc, players, week, team) ==
  IF players = <<>> THEN acc
  ELSE AddPlayers(AddPlayer(acc, Head(players), week, team), Tail(players),
                  week, team)

\* the home side unless only the away side is selected (a faulty variant)
SideOfAway(match, selected) ==
  IF SetHas(selected, match.awayTeam.id) THEN match.awayTeam ELSE match.homeTeam

\* selectedTeamIds.has(match.homeTeam.id) ? match.homeTeam : match.awayTeam
SideOf(match, selected) ==
  IF SetHas(selected, match.homeTeam.id) THEN match.homeTeam ELSE match.awayTeam

\* the body of allMatchDetails.forEach (lines 177-189)
FoldMatch(acc, match, selected) ==
  LET team == SideOf(match, selected)
  IN IF ~SetHas(selected, team.id) THEN acc
     ELSE AddPlayers([acc EXCEPT !.weekSet = SetAdd(@, match.week)],
                     team.players, match.week, team)

RECURSIVE FoldMatches(_, _, _)
FoldMatches(acc, matches, selected) ==
  IF matches = <<>> THEN acc
  ELSE FoldMatches(FoldMatch(acc, Head(matches), selected), Tail(matches),
                   selected)

\* the weeks left in the order of their insertion (a faulty variant)
PlayerUsageOfUnsorted(allMatchDetails, selected) ==
  LET acc == FoldMatches([players |-> <<>>, usage |-> <<>>, weekSet |-> <<>>],
                         allMatchDetails, selected)
  IN [players |-> acc.players,
      weeks |-> [i \in DOMAIN acc.weekSet |-> WeekLabel(acc.weekSet[i])],
      usage |-> acc.usage]

\* lines 172-193
PlayerUsageOf(allMatchDetails, selected) ==
  LET acc == FoldMatches([players |-> <<>>, usage |-> <<>>, weekSet |-> <<>>],
                         allMatchDetails, selected)
      sorted == SortSeq(acc.weekSet, LAMBDA a, b : a < b)
  IN [players |-> acc.players,
      weeks |-> [i \in DOMAIN sorted |-> WeekLabel(sorted[i])],
      usage |-> acc.usage]

RECURSIVE Unique(_)
\* Array.from(new Set(seq)): the first occurrence of every member, in order
Unique(seq) ==
  IF seq = <<>> THEN <<>>
  ELSE LET front == Unique(SubSeq(seq, 1, Len(seq) - 1))
       IN SetAdd(front, seq[Len(seq)])

\* the ids of the flattened lists, not made a Set (a faulty variant)
AllMatchIdsFlat(matchLists) ==
  LET flat == Flat(matchLists)
  IN [i \in DOMAIN flat |-> flat[i].id]

\* new Set(matchLists.flat().map(m => m.id)) (line 152)
AllMatchIds(matchLists) ==
  LET flat == Flat(matchLists)
  IN Unique([i \in DOMAIN flat |-> flat[i].id])

(***************************************************************************)
(* Stages C and D: handleFetchPlayerUsage (lines 126-200).                 *)
(***************************************************************************)
ValidationMessage == "Please select at least one team and a competition."

\* the analysis that checks nothing before it starts (a faulty variant)
InvalidSelectionNever(teams, comp) == FALSE

\* selectedTeamIds.size === 0 || !competitionId
InvalidSelection(teams, comp) == Len(teams) = 0 \/ Falsy(comp)

\* the button is rendered when a team is selected and is
\* disabled={loading.usage || !competitionId}; direct = TRUE calls the
\* handler without the button
handleFetchPlayerUsage(direct) ==
  /\ direct \/ (Len(selectedTeamIds) > 0 /\ ~loading.usage /\ ~Falsy(competitionId))
  /\ IF InvalidSelection(selectedTeamIds, competitionId)
     THEN /\ error' = ValidationMessage
          /\ UNCHANGED <<sessionArmedAt, sessionTimeoutRef, timers, loading,
                         playerUsage, analyses, started>>
     ELSE /\ HasFreeSlot(analyses)
          /\ started < MaxRuns
          /\ started' = started + 1
          /\ resetSessionTimeout(timers)
          /\ loading' = setLoading("usage", TRUE)
          /\ error' = NoError
          /\ playerUsage' = Null
          /\ analyses' = [analyses EXCEPT ![FreeSlot(analyses)] =
               [pc |-> "run", stage |-> "C", teams |-> selectedTeamIds,
                comp |-> competitionId, keys |-> selectedTeamIds,
                br |-> [k \in Range(selectedTeamIds) |-> NewBranch]]]
  /\ UNCHANGED <<now, cache, clubQuery, seasonId, clubs, selectedClub,
                 allTeams, selectedTeamIds, competitionId, debounce,
                 searches, loads, fnArg, fnRes, appVars>>

BranchStore(a) == IF a.stage = "C" THEN "match-lists" ELSE "match-details"
BranchKey(a, k) == IF a.stage = "C" THEN <<k, a.comp>> ELSE k
BranchRemote(a, k, ver) ==
  IF a.stage = "C" THEN RemoteMatchList(k, a.comp, ver)
  ELSE RemoteMatch(k, ver)
BranchStatusMessage(a) ==
  IF a.stage = "C" THEN "Failed fetching matches for team"
  ELSE "Failed fetching details for match"

Results(a) == [i \in DOMAIN a.keys |-> a.br[a.keys[i]].data.value]
AllDone(a) == \A k \in DOMAIN a.br : a.br[k].pc = "done"
AnyPending(a) == \E k \in DOMAIN a.br : Pending(a.br[k])

\* Promise.all that never rejects (a faulty variant)
RejectsNever(a) == FALSE

\* Promise.all rejects as soon as one of its promises rejects
Rejects(a) == \E k \in DOMAIN a.br : a.br[k].pc = "fail"

Release(a) == IF AnyPending(a) THEN a ELSE IdleAnalysis

\* What follows in the same step when a branch has settled, a being the
\* analysis with that branch updated: Promise.all rejects on the first
\* failed branch (catch, finally: lines 195-199) and resolves when the last
\* branch is done (lines 151-157 after stage C, 170-193 after stage D).
\* The branches of an aborted analysis run on, unobserved.
Settle(i, a, message) ==
  IF a.pc = "aborted"
  THEN /\ analyses' = [analyses EXCEPT ![i] = Release(a)]
       /\ UNCHANGED <<playerUsage, error, loading>>
  ELSE IF Rejects(a)
  THEN /\ error' = message
       /\ loading' = setLoading("usage", FALSE)
       /\ analyses' = [analyses EXCEPT ![i] = Release([a EXCEPT !.pc = "aborted"])]
       /\ UNCHANGED playerUsage
  ELSE IF ~AllDone(a)
  THEN /\ analyses' = [analyses EXCEPT ![i] = a]
       /\ UNCHANGED <<playerUsage, error, loading>>
  ELSE IF a.stage = "D"
  THEN /\ playerUsage' = PlayerUsageOf(Results(a), a.teams)
       /\ loading' = setLoading("usage", FALSE)
       /\ analyses' = [analyses EXCEPT ![i] = IdleAnalysis]
       /\ UNCHANGED error
  ELSE IF Len(AllMatchIds(Results(a))) = 0
  THEN /\ playerUsage' = EmptyUsage
       /\ loading' = setLoading("usage", FALSE)
       /\ analyses' = [analyses EXCEPT ![i] = IdleAnalysis]
       /\ UNCHANGED error
  ELSE LET ids == AllMatchIds(Results(a))
       IN /\ analyses' = [analyses EXCEPT ![i] =
               [a EXCEPT !.stage = "D", !.keys = ids,
                         !.br = [k \in Range(ids) |-> NewBranch]]]
          /\ UNCHANGED <<playerUsage, error, loading>>

\* getFromDB of a branch settles (lines 141-142, 160-161)
AnalysisGet(i, k, dbOk) ==
  LET a == analyses[i]
      cached == getFromDB(BranchStore(a), BranchKey(a, k))
  IN /\ a.pc # "idle" /\ k \in DOMAIN a.br /\ a.br[k].pc = "get"
     /\ IF ~dbOk
        THEN Settle(i, [a EXCEPT !.br[k].pc = "fail"], StorageError)
        ELSE IF isCacheValid(cached, now)
        THEN Settle(i, [a EXCEPT !.br[k] = [pc |-> "done",
                                            data |-> Resolved(cached.data),
                                            ts |-> 0]], "")
        ELSE /\ analyses' = [analyses EXCEPT ![i].br[k].pc = "fetch"]
             /\ UNCHANGED <<playerUsage, error, loading>>
     /\ UNCHANGED <<now, cache, clubQuery, seasonId, clubs,
                    selectedClub, allTeams, selectedTeamIds, competitionId,
                    debounce, sessionArmedAt, sessionTimeoutRef, timers, searches, loads, started, fnArg, fnRes, appVars>>

\* the response of a branch's request arrives (lines 144-147, 163-166, to
\* the await of setToDB)
AnalysisResponse(i, k, response, ver) ==
  LET a == analyses[i]
  IN /\ a.pc # "idle" /\ k \in DOMAIN a.br /\ a.br[k].pc = "fetch"
     /\ IF response = "ok"
        THEN /\ analyses' = [analyses EXCEPT ![i].br[k] =
                  [pc |-> "put", data |-> Resolved(BranchRemote(a, k, ver)),
                   ts |-> now]]
             /\ UNCHANGED <<playerUsage, error, loading>>
        ELSE Settle(i, [a EXCEPT !.br[k].pc = "fail"],
                    IF response = "status" THEN BranchStatusMessage(a)
                    ELSE TransportError)
     /\ UNCHANGED <<now, cache, clubQuery, seasonId, clubs,
                    selectedClub, allTeams, selectedTeamIds, competitionId,
                    debounce, sessionArmedAt, sessionTimeoutRef, timers, searches, loads, started, fnArg, fnRes, appVars>>

\* setToDB of a branch settles (lines 147-148, 166-167)
AnalysisPut(i, k, dbOk) ==
  LET a == analyses[i]
  IN /\ a.pc # "idle" /\ k \in DOMAIN a.br /\ a.br[k].pc = "put"
     /\ IF dbOk
        THEN /\ cache' = setToDB(BranchStore(a),
                           CacheItem(BranchKey(a, k), a.br[k].data.value,
                                     a.br[k].ts))
             /\ Settle(i, [a EXCEPT !.br[k].pc = "done"], "")
        ELSE /\ UNCHANGED cache
             /\ Settle(i, [a EXCEPT !.br[k].pc = "fail"], StorageError)
     /\ UNCHANGED <<now, clubQuery, seasonId, clubs,
                    selectedClub, allTeams, selectedTeamIds, competitionId,
                    debounce, sessionArmedAt, sessionTimeoutRef, timers, searches, loads, started, fnArg, fnRes, appVars>>

(***************************************************************************)
(* App (utils.ts 20-84): the session.  The Login form is rendered while    *)
(* token is null and the Tracker while it is set (lines 77-81).            *)
(***************************************************************************)
\* `dummy-token-${Date.now()}`
Token(t) == "dummy-token-" \o ToString(t)
ValidationError == "Please enter a username and password."
Mounted == token # NoToken

\* the React state of the Tracker (lines 16-34) and its running operations
trackerState == <<loading, error, clubQuery, seasonId, clubs, selectedClub,
                  allTeams, selectedTeamIds, competitionId, playerUsage>>
operations == <<searches, loads, analyses, started>>

\* The Tracker leaves the screen.  Its state is gone, and the variables
\* take the values the next mount starts from (lines 16-34).
TrackerUnmounts ==
  /\ loading' = [clubs |-> FALSE, teams |-> FALSE, usage |-> FALSE]
  /\ error' = NoError
  /\ clubQuery' = ""
  /\ seasonId' = initialSeasonId
  /\ clubs' = <<>>
  /\ selectedClub' = Null
  /\ allTeams' = <<>>
  /\ selectedTeamIds' = <<>>
  /\ competitionId' = NoCompetition
  /\ playerUsage' = Null

\* handleLogout with the credential left in localStorage (a faulty variant)
handleLogoutKeeping(tbl) ==
  /\ token' = NoToken
  /\ authToken' = authToken
  /\ timers' = clearTimeout(clearTimeout(tbl, sessionTimeoutRef), debounce)
  /\ sessionTimeoutRef' = 0
  /\ debounce' = 0
  /\ TrackerUnmounts

\* handleLogout (lines 26-32) on the timer table tbl, and the render that
\* follows: the cleanup of the token effect (lines 51-55) and the unmount of
\* the Tracker, which runs the cleanup of its club-search effect
handleLogout(tbl) ==
  /\ token' = NoToken
  /\ authToken' = NoToken
  /\ timers' = clearTimeout(clearTimeout(tbl, sessionTimeoutRef), debounce)
  /\ sessionTimeoutRef' = 0
  /\ debounce' = 0
  /\ TrackerUnmounts

\* the Logout button of the Tracker (Tracker.tsx 289)
LogoutClick ==
  /\ Mounted
  /\ handleLogout(timers)
  /\ UNCHANGED <<now, cache, sessionArmedAt, loginLoading, loginError,
                 alerts, operations, fnArg, fnRes>>

\* the inactivity timer run before it is due (a faulty variant)
SessionExpireEarly(t) ==
  /\ t \in PendingOf(timers, "session")
  /\ handleLogout(clearTimeout(timers, t.id))
  /\ alerts' = alerts + 1
  /\ UNCHANGED <<now, cache, sessionArmedAt, loginLoading, loginError,
                 operations, fnArg, fnRes>>

\* the inactivity timer t runs (lines 38-43)
SessionExpire(t) ==
  /\ t \in PendingOf(timers, "session")
  /\ now >= t.due
  /\ handleLogout(clearTimeout(timers, t.id))
  /\ alerts' = alerts + 1
  /\ UNCHANGED <<now, cache, sessionArmedAt, loginLoading, loginError,
                 operations, fnArg, fnRes>>

\* handleLogin up to its setTimeout (lines 59-63); the Login button is
\* disabled={loading}
handleLogin(username, password) ==
  /\ ~Mounted /\ ~loginLoading
  /\ alerts < MaxExpiries
  /\ loginLoading' = TRUE
  /\ loginError' = NoError
  /\ timers' = setTimeout(timers, "login", now + LoginDelay,
                          [username |-> username, password |-> password])
  /\ UNCHANGED <<now, cache, trackerState, debounce, sessionArmedAt,
                 sessionTimeoutRef, token, authToken, alerts, operations,
                 fnArg, fnRes>>

\* the callback of the login timer with every attempt accepted (a faulty
\* variant)
LoginFireAccepting(t) ==
  /\ t \in PendingOf(timers, "login")
  /\ now >= t.due
  /\ token' = Token(now)
  /\ authToken' = Token(now)
  /\ loginError' = loginError
  /\ resetSessionTimeout(clearTimeout(timers, t.id))
  /\ loginLoading' = FALSE
  /\ UNCHANGED <<now, cache, trackerState, debounce, alerts, operations,
                 fnArg, fnRes>>

\* the callback of the login timer t (lines 63-72), and on success the
\* token effect (lines 46-49) of the render that follows
LoginFire(t) ==
  /\ t \in PendingOf(timers, "login")
  /\ now >= t.due
  /\ IF t.arg.username # "" /\ t.arg.password # ""
     THEN /\ token' = Token(now)
          /\ authToken' = Token(now)
          /\ loginError' = loginError
          /\ resetSessionTimeout(clearTimeout(timers, t.id))
     ELSE /\ loginError' = ValidationError
          /\ timers' = clearTimeout(timers, t.id)
          /\ UNCHANGED <<token, authToken, sessionTimeoutRef, sessionArmedAt>>
  /\ loginLoading' = FALSE
  /\ UNCHANGED <<now, cache, trackerState, debounce, alerts, operations,
                 fnArg, fnRes>>

\* no credential in localStorage: useState(localStorage.getItem('authToken'))
AppIdle ==
  /\ token = NoToken /\ authToken = NoToken
  /\ loginLoading = FALSE /\ loginError = NoError /\ alerts = 0
  /\ sessionTimeoutRef = 0 /\ timers = {}

\* a credential in localStorage at time 0, and the token effect of the mount
StoredSession ==
  /\ token = Token(0) /\ authToken = Token(0)
  /\ loginLoading = FALSE /\ loginError = NoError /\ alerts = 0
  /\ sessionTimeoutRef = 1
  /\ timers = {Timer(1, "session", SESSION_DURATION_MS, Null)}

(***************************************************************************)
(* Initial states.  A run exercises one part of the tracker (scope), from  *)
(* a state in which the user reaches that part; the states below are the   *)
(* ones the tracker is in, at rest, along one session at time 0: mounted;  *)
(* the search for "nes" answered and stored; club 1 selected and its teams *)
(* fetched and stored; from there, the search for "nes" served again from  *)
(* the cache; and, from the loaded club, team 1 analysed in competition 1. *)
(* Each of them is reached from the mounted tracker by the actions of      *)
(* Next with the remote answering at version 1.                            *)
(***************************************************************************)
AtRest ==
  /\ now = 0
  /\ loading = [clubs |-> FALSE, teams |-> FALSE, usage |-> FALSE]
  /\ error = NoError
  /\ seasonId = initialSeasonId
  /\ debounce = 0
  /\ sessionArmedAt = 0
  /\ StoredSession
  /\ searches = [i \in SearchSlots |-> IdleSearch]
  /\ loads = [i \in LoadSlots |-> IdleLoad]
  /\ analyses = [i \in AnalysisSlots |-> IdleAnalysis]
  /\ started = 0
  /\ fnArg = Null
  /\ fnRes = Null

EmptyCache == [s \in Stores |-> [k \in KeysOf(s) |-> Null]]

\* the state after construction (lines 16-34)
InitMounted ==
  /\ AtRest
  /\ cache = EmptyCache
  /\ clubQuery = ""
  /\ clubs = <<>>
  /\ selectedClub = Null
  /\ allTeams = <<>>
  /\ selectedTeamIds = <<>>
  /\ competitionId = NoCompetition
  /\ playerUsage = Null

SearchKey == <<"nes", initialSeasonId>>
FoundClubs == ClubsFromRaw(RawSearch(1))
CacheAfterSearch ==
  [EmptyCache EXCEPT !["club-search"][SearchKey] =
     CacheItem(SearchKey, FoundClubs, 0)]

InitFound ==
  /\ AtRest
  /\ cache = CacheAfterSearch
  /\ clubQuery = "nes"
  /\ clubs = FoundClubs
  /\ selectedClub = Null
  /\ allTeams = <<>>
  /\ selectedTeamIds = <<>>
  /\ competitionId = NoCompetition
  /\ playerUsage = Null

CacheAfterLoad ==
  [CacheAfterSearch EXCEPT !["teams"][1] = CacheItem(1, RemoteTeams(1, 1), 0)]

InitLoaded ==
  /\ AtRest
  /\ cache = CacheAfterLoad
  /\ clubQuery = ""
  /\ clubs = <<>>
  /\ selectedClub = FoundClubs[1]
  /\ allTeams = RemoteTeams(1, 1)
  /\ selectedTeamIds = <<>>
  /\ competitionId = NoCompetition
  /\ playerUsage = Null

InitReshown ==
  /\ AtRest
  /\ cache = CacheAfterLoad
  /\ clubQuery = "nes"
  /\ clubs = FoundClubs
  /\ selectedClub = FoundClubs[1]
  /\ allTeams = RemoteTeams(1, 1)
  /\ selectedTeamIds = <<>>
  /\ competitionId = NoCompetition
  /\ playerUsage = Null

AnalysedMatches == <<RemoteMatch(1, 1), RemoteMatch(2, 1)>>
CacheAfterAnalysis ==
  [CacheAfterLoad EXCEPT
     !["match-lists"][<<1, 1>>] = CacheItem(<<1, 1>>, RemoteMatchList(1, 1, 1), 0),
     !["match-details"][1] = CacheItem(1, AnalysedMatches[1], 0),
     !["match-details"][2] = CacheItem(2, AnalysedMatches[2], 0)]

InitAnalysed ==
  /\ AtRest
  /\ cache = CacheAfterAnalysis
  /\ clubQuery = ""
  /\ clubs = <<>>
  /\ selectedClub = FoundClubs[1]
  /\ allTeams = RemoteTeams(1, 1)
  /\ selectedTeamIds = <<1>>
  /\ competitionId = 1
  /\ playerUsage = PlayerUsageOf(AnalysedMatches, <<1>>)

Init ==
  \/ scope = "search" /\ InitMounted
  \/ scope = "teams" /\ (InitFound \/ InitReshown)
  \/ scope = "usage" /\ (InitLoaded \/ InitAnalysed)

(***************************************************************************)
(* The tracker as the user drives it through the rendered controls.        *)
(***************************************************************************)
StorageOutcomes == BOOLEAN
BranchKeys == TeamIds \cup MatchIds
In(scopes) == scope \in scopes /\ scope' = scope

SearchSteps ==
  \/ \E i \in SearchSlots, dbOk \in StorageOutcomes : SearchGet(i, dbOk)
  \/ \E i \in SearchSlots, r \in Responses, ver \in Vers :
       SearchResponse(i, r, ver)
  \/ \E i \in SearchSlots, dbOk \in StorageOutcomes : SearchPut(i, dbOk)

LoadSteps ==
  \/ \E i \in LoadSlots, dbOk \in StorageOutcomes : LoadGet(i, dbOk)
  \/ \E i \in LoadSlots, r \in Responses, ver \in Vers :
       LoadResponse(i, r, ver)
  \/ \E i \in LoadSlots, dbOk \in StorageOutcomes : LoadPut(i, dbOk)

AnalysisSteps ==
  \/ \E i \in AnalysisSlots, k \in BranchKeys, dbOk \in StorageOutcomes :
       AnalysisGet(i, k, dbOk)
  \/ \E i \in AnalysisSlots, k \in BranchKeys, r \in Responses, ver \in Vers :
       AnalysisResponse(i, k, r, ver)
  \/ \E i \in AnalysisSlots, k \in BranchKeys, dbOk \in StorageOutcomes :
       AnalysisPut(i, k, dbOk)

Next ==
  \/ In({"search", "teams", "usage"}) /\ Tick
  \/ In({"search"}) /\ \E q \in Queries : SetClubQuery(q)
  \/ In({"search"}) /\ DebounceFire
  \/ In({"search"}) /\ handleSearchClubs
  \/ In({"search"}) /\ SearchSteps
  \/ In({"teams"}) /\ \E i \in 1..Len(clubs) : handleSelectClub(i)
  \/ In({"teams"}) /\ LoadSteps
  \/ In({"usage"}) /\ \E t \in TeamIds : handleTeamSelection(t)
  \/ In({"usage"}) /\ \E c \in CompetitionIds \cup {0} : setCompetitionId(c)
  \/ In({"usage"}) /\ handleFetchPlayerUsage(FALSE)
  \/ In({"usage"}) /\ AnalysisSteps

Spec == Init /\ [][Next]_vars

\* every cache operation and every request settles: the await at which a
\* club search, a team-list load or a branch of an analysis stands is
\* resumed, with one outcome or another
SearchSettles(i) ==
  /\ In({"search"})
  /\ \/ \E dbOk \in StorageOutcomes : SearchGet(i, dbOk)
     \/ \E r \in Responses, ver \in Vers : SearchResponse(i, r, ver)
     \/ \E dbOk \in StorageOutcomes : SearchPut(i, dbOk)

LoadSettles(i) ==
  /\ In({"teams"})
  /\ \/ \E dbOk \in StorageOutcomes : LoadGet(i, dbOk)
     \/ \E r \in Responses, ver \in Vers : LoadResponse(i, r, ver)
     \/ \E dbOk \in StorageOutcomes : LoadPut(i, dbOk)

BranchSettles(i, k) ==
  /\ In({"usage"})
  /\ \/ \E dbOk \in StorageOutcomes : AnalysisGet(i, k, dbOk)
     \/ \E r \in Responses, ver \in Vers : AnalysisResponse(i, k, r, ver)
     \/ \E dbOk \in StorageOutcomes : AnalysisPut(i, k, dbOk)

SpecFair ==
  /\ Spec
  /\ \A i \in SearchSlots : WF_vars(SearchSettles(i))
  /\ \A i \in LoadSlots : WF_vars(LoadSettles(i))
  /\ \A i \in AnalysisSlots : \A k \in BranchKeys : WF_vars(BranchSettles(i, k))

(***************************************************************************)
(* The analysis handler called in any state, not only through its button.  *)
(***************************************************************************)
InitDirect == scope = "direct" /\ (InitLoaded \/ InitAnalysed)

NextDirect ==
  \/ In({"direct"}) /\ Tick
  \/ In({"direct"}) /\ \E t \in TeamIds : handleTeamSelection(t)
  \/ In({"direct"}) /\ \E c \in CompetitionIds \cup {0} : setCompetitionId(c)
  \/ In({"direct"}) /\ handleFetchPlayerUsage(TRUE)
  \/ In({"direct"}) /\ AnalysisSteps

SpecDirect == InitDirect /\ [][NextDirect]_vars

(***************************************************************************)
(* The session: App with the Login form and the search form of the         *)
(* Tracker.  The clock is sampled around the multiples of the session      *)
(* duration; the club searches that start here are left at their first     *)
(* await.                                                                  *)
(***************************************************************************)
SessionClockSamples ==
  {w * SESSION_DURATION_MS + d * LoginDelay : w \in 0..MaxWindow, d \in 0..MaxDelay}

TickSession ==
  /\ \E t \in SessionClockSamples : t > now /\ now' = t
  /\ UNCHANGED <<cache, trackerVars, appVars, fnArg, fnRes>>

\* the App mounted with no credential in localStorage
InitAnonymous ==
  /\ now = 0
  /\ cache = EmptyCache
  /\ loading = [clubs |-> FALSE, teams |-> FALSE, usage |-> FALSE]
  /\ error = NoError /\ clubQuery = "" /\ seasonId = initialSeasonId
  /\ clubs = <<>> /\ selectedClub = Null /\ allTeams = <<>>
  /\ selectedTeamIds = <<>> /\ competitionId = NoCompetition
  /\ playerUsage = Null /\ debounce = 0 /\ sessionArmedAt = 0
  /\ searches = [i \in SearchSlots |-> IdleSearch]
  /\ loads = [i \in LoadSlots |-> IdleLoad]
  /\ analyses = [i \in AnalysisSlots |-> IdleAnalysis]
  /\ started = 0 /\ fnArg = Null /\ fnRes = Null
  /\ AppIdle

\* the inputs of the Login form are `required`
Usernames == {"", "ola"}
Passwords == {"", "hemmelig"}

InitSession == scope = "session" /\ (InitAnonymous \/ InitMounted)

Passes == In({"session"}) /\ TickSession
LogsIn == In({"session"}) /\ \E t \in timers : LoginFire(t)
Expires == In({"session"}) /\ \E t \in timers : SessionExpire(t)

NextSession ==
  \/ Passes
  \/ In({"session"}) /\ \E u \in Usernames \ {""}, p \in Passwords \ {""} :
                           handleLogin(u, p)
  \/ LogsIn
  \/ In({"session"}) /\ LogoutClick
  \/ Expires
  \/ In({"session"}) /\ Mounted /\ \E q \in Queries : SetClubQuery(q)
  \/ In({"session"}) /\ Mounted /\ \E s \in SeasonIds : setSeasonId(s)
  \/ In({"session"}) /\ DebounceFire
  \/ In({"session"}) /\ Mounted /\ handleSearchClubs

SpecSession == InitSession /\ [][NextSession]_vars

\* the browser runs a timer that is due, and time passes
SpecSessionFair ==
  SpecSession /\ WF_vars(Passes) /\ WF_vars(LogsIn) /\ WF_vars(Expires)

(***************************************************************************)
(* The end of a session under running operations.  handleLogout only       *)
(* drops the token; the calls of fetchTeams and handleFetchPlayerUsage     *)
(* that stand at an await keep the token and the setters of their closure  *)
(* and run on.  After the unmount the tracker state stands for the state   *)
(* of the instance that left the screen, which is rendered no more.        *)
(***************************************************************************)
InitEnding == scope = "ending" /\ (InitReshown \/ InitLoaded)

NextEnding ==
  \/ In({"ending"}) /\ Tick
  \/ In({"ending"}) /\ Mounted /\ \E i \in 1..Len(clubs) : handleSelectClub(i)
  \/ In({"ending"}) /\ LoadSteps
  \/ In({"ending"}) /\ Mounted /\ \E t \in TeamIds : handleTeamSelection(t)
  \/ In({"ending"}) /\ Mounted /\ \E c \in CompetitionIds : setCompetitionId(c)
  \/ In({"ending"}) /\ Mounted /\ handleFetchPlayerUsage(FALSE)
  \/ In({"ending"}) /\ AnalysisSteps
  \/ In({"ending"}) /\ LogoutClick
  \/ In({"ending"}) /\ \E t \in timers : SessionExpire(t)

SpecEnding == InitEnding /\ [][NextEnding]_vars

(***************************************************************************)
(* handleLogin called with any arguments, not only through the form.       *)
(***************************************************************************)
InitLogin == scope = "login" /\ InitAnonymous

NextLogin ==
  \/ In({"login"}) /\ TickSession
  \/ In({"login"}) /\ \E u \in Usernames, p \in Passwords : handleLogin(u, p)
  \/ In({"login"}) /\ \E t \in timers : LoginFire(t)
  \/ In({"login"}) /\ LogoutClick
  \/ In({"login"}) /\ \E t \in timers : SessionExpire(t)

SpecLogin == InitLogin /\ [][NextLogin]_vars

(***************************************************************************)
(* The pure functions on their own: Init draws the argument, the action    *)
(* applies the function.                                                   *)
(***************************************************************************)
Applied(fn, value) == [fn |-> fn, value |-> value]

\* instants around the multiples of the cache duration
StampSamples == 0..MaxStamp
NowSamples ==
  {h * CACHE_DURATION_MS + d : h \in 0..MaxHour, d \in (0 - 1)..(MaxStamp + 1)}
    \cap Nat
ItemSamples ==
  {Null} \cup {CacheItem(1, <<>>, ts) : ts \in StampSamples}

InitValid ==
  /\ now \in NowSamples
  /\ fnArg \in ItemSamples
  /\ fnRes = Null
  /\ cache = Null
  /\ loading = Null /\ error = NoError /\ clubQuery = "" /\ seasonId = ""
  /\ clubs = <<>> /\ selectedClub = Null /\ allTeams = <<>>
  /\ selectedTeamIds = <<>> /\ competitionId = NoCompetition
  /\ playerUsage = Null /\ debounce = 0 /\ sessionArmedAt = 0
  /\ AppIdle
  /\ searches = <<>> /\ loads = <<>> /\ analyses = <<>> /\ started = 0
  /\ scope = "pure"

ApplyIsCacheValid ==
  /\ fnRes = Null
  /\ fnRes' = Applied("isCacheValid", isCacheValid(fnArg, now))
  /\ UNCHANGED <<now, cache, trackerVars, appVars, scope, fnArg>>

NextValid == ApplyIsCacheValid
SpecValid == InitValid /\ [][NextValid]_vars

RawLabels == {"A", "B", "", " "}
RawValues == {0, 1, 2}
RawSamples == {RawClub(v, l) : v \in RawValues, l \in RawLabels}
RawLists == UNION {[1..n -> RawSamples] : n \in 0..MaxRaw}

InitDedup ==
  /\ now = 0
  /\ fnArg \in RawLists
  /\ fnRes = Null
  /\ cache = Null
  /\ loading = Null /\ error = NoError /\ clubQuery = "" /\ seasonId = ""
  /\ clubs = <<>> /\ selectedClub = Null /\ allTeams = <<>>
  /\ selectedTeamIds = <<>> /\ competitionId = NoCompetition
  /\ playerUsage = Null /\ debounce = 0 /\ sessionArmedAt = 0
  /\ AppIdle
  /\ searches = <<>> /\ loads = <<>> /\ analyses = <<>> /\ started = 0
  /\ scope = "pure"

ApplyClubsFromRaw ==
  /\ fnRes = Null
  /\ fnRes' = Applied("ClubsFromRaw", ClubsFromRaw(fnArg))
  /\ UNCHANGED <<now, cache, trackerVars, appVars, scope, fnArg>>

NextDedup == ApplyClubsFromRaw
SpecDedup == InitDedup /\ [][NextDedup]_vars

\* the fold of lines 172-193 applied to lists of match details
MaxMatches == 2
FoldWeeks == {9, 10}
FoldSides ==
  {Side(1, <<Player(1, "Ola", "Li"), Player(2, "Per", "Aas")>>),
   Side(2, <<Player(3, "Jon", "Dahl")>>),
   Side(2, <<Player(1, "Ola", "Lie")>>),
   Side(9, <<Player(4, "Nils", "Berg")>>)}
\* match details; the fold does not read the id of a match
FoldMatchSamples ==
  {[week |-> w, homeTeam |-> h, awayTeam |-> a] :
     w \in FoldWeeks,
     <<h, a>> \in {pair \in FoldSides \X FoldSides : pair[1].id # pair[2].id}}
FoldLists == UNION {[1..n -> FoldMatchSamples] : n \in 0..MaxMatches}
FoldSelections == {<<1>>, <<2>>, <<1, 2>>}

InitFold ==
  /\ now = 0
  /\ fnArg \in [matches : FoldLists, selected : FoldSelections]
  /\ fnRes = Null
  /\ cache = Null
  /\ loading = Null /\ error = NoError /\ clubQuery = "" /\ seasonId = ""
  /\ clubs = <<>> /\ selectedClub = Null /\ allTeams = <<>>
  /\ selectedTeamIds = <<>> /\ competitionId = NoCompetition
  /\ playerUsage = Null /\ debounce = 0 /\ sessionArmedAt = 0
  /\ AppIdle
  /\ searches = <<>> /\ loads = <<>> /\ analyses = <<>> /\ started = 0
  /\ scope = "pure"

ApplyPlayerUsageOf ==
  /\ fnRes = Null
  /\ fnRes' = Applied("PlayerUsageOf",
                       PlayerUsageOf(fnArg.matches, fnArg.selected))
  /\ UNCHANGED <<now, cache, trackerVars, appVars, scope, fnArg>>

NextFold == ApplyPlayerUsageOf
SpecFold == InitFold /\ [][NextFold]_vars

\* db.ts on its own: successful setToDB and getFromDB calls in any order.
\* fnArg is the log of the writes made, fnRes the last read and its result.
MaxWrites == 3
DbStores == {"teams", "match-details"}
DbKeys == {1, 2}
DbItems(storeName, key) ==
  {CacheItem(key,
             IF storeName = "teams" THEN RemoteTeams(key, ver)
             ELSE RemoteMatch(key, ver),
             t) : ver \in Vers, t \in ClockSamples}

InitDb ==
  /\ now = 0
  /\ fnArg = <<>>
  /\ fnRes = Null
  /\ cache = EmptyCache
  /\ loading = Null /\ error = NoError /\ clubQuery = "" /\ seasonId = ""
  /\ clubs = <<>> /\ selectedClub = Null /\ allTeams = <<>>
  /\ selectedTeamIds = <<>> /\ competitionId = NoCompetition
  /\ playerUsage = Null /\ debounce = 0 /\ sessionArmedAt = 0
  /\ AppIdle
  /\ searches = <<>> /\ loads = <<>> /\ analyses = <<>> /\ started = 0
  /\ scope = "pure"

\* await setToDB(storeName, item)
DbWrite(storeName, item) ==
  /\ Len(fnArg) < MaxWrites
  /\ cache' = setToDB(storeName, item)
  /\ fnArg' = Append(fnArg, [storeName |-> storeName, item |-> item])
  /\ fnRes' = Null
  /\ UNCHANGED <<now, trackerVars, appVars, scope>>

\* await getFromDB(storeName, key)
DbRead(storeName, key) ==
  /\ fnRes' = [storeName |-> storeName, key |-> key,
               value |-> getFromDB(storeName, key)]
  /\ UNCHANGED <<now, cache, trackerVars, appVars, scope, fnArg>>

NextDb ==
  \/ \E storeName \in DbStores, key \in DbKeys :
       \E item \in DbItems(storeName, key) : DbWrite(storeName, item)
  \/ \E storeName \in DbStores, key \in DbKeys : DbRead(storeName, key)

SpecDb == InitDb /\ [][NextDb]_vars

\* the request adapter on its own: a call is drawn, issued and settled
MaxHeaders == 2
Tokens == {"t1", "t2"}
Methods == {"", "POST"}
HeaderNames == {"X-Trace", "Authorization", "authorization", "Content-Type"}
HeaderTexts == {"1", "other"}
HeaderMembers ==
  {m \in UNION {[1..n -> [key : HeaderNames, value : HeaderTexts]] : n \in 0..MaxHeaders} :
     \A i, j \in DOMAIN m : m[i].key = m[j].key => i = j}
HeadersInitSamples ==
  {HeadersInit("undefined", <<>>)}
    \cup {HeadersInit(kind, m) : kind \in {"record", "array"}, m \in HeaderMembers}
    \cup {HeadersInit("Headers", HeaderList(m)) : m \in HeaderMembers}
ApiCalls ==
  [url : {"/api/Teams?clubId=1"}, token : Tokens,
   options : [method : Methods, headers : HeadersInitSamples]]

InitApi ==
  /\ now = 0
  /\ fnArg \in ApiCalls
  /\ fnRes = Null
  /\ cache = Null
  /\ loading = Null /\ error = NoError /\ clubQuery = "" /\ seasonId = ""
  /\ clubs = <<>> /\ selectedClub = Null /\ allTeams = <<>>
  /\ selectedTeamIds = <<>> /\ competitionId = NoCompetition
  /\ playerUsage = Null /\ debounce = 0 /\ sessionArmedAt = 0
  /\ AppIdle
  /\ searches = <<>> /\ loads = <<>> /\ analyses = <<>> /\ started = 0
  /\ scope = "pure"

\* return fetch(url, {...}): the request goes out, the promise is pending
ApiCall ==
  /\ fnRes = Null
  /\ fnRes' = [requests |-> <<Request(apiFetch(fnArg.url, fnArg.token, fnArg.options))>>,
               promise |-> "pending", response |-> ""]
  /\ UNCHANGED <<now, cache, trackerVars, appVars, scope, fnArg>>

\* the promise of fetch settles: fulfilled with the response whatever its
\* status, rejected when the transport fails
ApiSettle(r) ==
  /\ fnRes # Null /\ fnRes.promise = "pending"
  /\ fnRes' = [fnRes EXCEPT !.promise = IF r = "reject" THEN "rejected" ELSE "fulfilled",
                            !.response = r]
  /\ UNCHANGED <<now, cache, trackerVars, appVars, scope, fnArg>>

NextApi ==
  \/ ApiCall
  \/ \E r \in Responses : ApiSettle(r)

SpecApi == InitApi /\ [][NextApi]_vars

\* the season codec on its own: a year is drawn, encoded and decoded
MaxYear == 2100
MaxExponent == 22
YearSamples ==
  {Num(y, 0) : y \in (0 - MaxYear)..MaxYear}
    \cup {Num(1, e) : e \in ExponentFrom..MaxExponent}

InitSeason ==
  /\ now = 0
  /\ fnArg \in YearSamples
  /\ fnRes = Null
  /\ cache = Null
  /\ loading = Null /\ error = NoError /\ clubQuery = "" /\ seasonId = ""
  /\ clubs = <<>> /\ selectedClub = Null /\ allTeams = <<>>
  /\ selectedTeamIds = <<>> /\ competitionId = NoCompetition
  /\ playerUsage = Null /\ debounce = 0 /\ sessionArmedAt = 0
  /\ AppIdle
  /\ searches = <<>> /\ loads = <<>> /\ analyses = <<>> /\ started = 0
  /\ scope = "pure"

ApplySeasonCodec ==
  /\ fnRes = Null
  /\ fnRes' = [seasonId |-> seasonIdForYear(fnArg),
               year |-> yearForSeasonId(seasonIdForYear(fnArg))]
  /\ UNCHANGED <<now, cache, trackerVars, appVars, scope, fnArg>>

NextSeason == ApplySeasonCodec
SpecSeason == InitSeason /\ [][NextSeason]_vars

(***************************************************************************)
(* C1: isCacheValid(item) is true iff item is not null and                 *)
(* now - item.timestamp < 3600000 ms; at an age of exactly 3600000 ms and  *)
(* for a null entry it is false.                                           *)
(***************************************************************************)
C1_IsCacheValid ==
  fnRes # Null =>
    /\ fnRes.value = TRUE <=> (fnArg # Null /\ now - fnArg.timestamp < 3600000)
    /\ fnArg = Null => fnRes.value = FALSE
    /\ (fnArg # Null /\ now - fnArg.timestamp = 3600000) => fnRes.value = FALSE
    /\ (fnArg # Null /\ now - fnArg.timestamp = 3599999) => fnRes.value = TRUE

\* the function was applied to an entry whose age is exactly the duration
C1_Witness ==
  /\ fnRes # Null /\ fnArg # Null
  /\ now - fnArg.timestamp = 3600000
  /\ fnRes.value = FALSE

(***************************************************************************)
(* What the claims about the retrieval stages speak of.                    *)
(***************************************************************************)
\* an entry younger than one hour, as the specification words it
Fresh(item) == item # Null /\ now - item.timestamp < 3600000

Entry(store, key) == cache[store][key]
Failures == {"status", "reject"}

\* the branch k of the analysis i is in flight
Branch(i, k) == analyses[i].pc # "idle" /\ k \in DOMAIN analyses[i].br

\* the analysis i is, after the step, still in the fan-out stage it was in
SameStage(i) ==
  analyses'[i].pc # "idle" /\ analyses'[i].stage = analyses[i].stage

(***************************************************************************)
(* C2: in each of the four retrieval stages, a fresh entry for the key is  *)
(* used and no request is issued; with an absent or stale entry exactly    *)
(* one request is issued and, on a successful response, the entry of the   *)
(* key is overwritten with the fetched data and the time of the write.     *)
(***************************************************************************)
C2_Search(i) ==
  LET op == searches[i]
      key == <<op.query, op.season>>
  IN /\ SearchGet(i, TRUE) =>
          IF Fresh(Entry("club-search", key))
          THEN /\ clubs' = Entry("club-search", key).data
               /\ searches'[i].pc = "idle" /\ cache' = cache
          ELSE searches'[i].pc = "fetch" /\ cache' = cache
     /\ (op.pc # "fetch" /\ searches'[i].pc = "fetch") =>
          op.pc = "get" /\ ~Fresh(Entry("club-search", key))
     /\ \A ver \in Vers :
          SearchResponse(i, "ok", ver) =>
            /\ searches'[i].pc = "put"
            /\ searches'[i].data = ClubsFromRaw(RawSearch(ver))
            /\ searches'[i].ts = now
            /\ clubs' = searches'[i].data
     /\ SearchPut(i, TRUE) =>
          cache' = [cache EXCEPT !["club-search"][key] =
                      [key |-> key, data |-> op.data, timestamp |-> op.ts]]

C2_Load(i) ==
  LET op == loads[i]
  IN /\ LoadGet(i, TRUE) =>
          IF Fresh(Entry("teams", op.club.id))
          THEN /\ allTeams' = Entry("teams", op.club.id).data
               /\ loads'[i].pc = "idle" /\ cache' = cache
          ELSE loads'[i].pc = "fetch" /\ cache' = cache
     /\ (op.pc # "fetch" /\ loads'[i].pc = "fetch") =>
          op.pc = "get" /\ ~Fresh(Entry("teams", op.club.id))
     /\ \A ver \in Vers :
          LoadResponse(i, "ok", ver) =>
            /\ loads'[i].pc = "put"
            /\ loads'[i].data = RemoteTeams(op.club.id, ver)
            /\ loads'[i].ts = now
            /\ allTeams' = loads'[i].data
     /\ LoadPut(i, TRUE) =>
          cache' = [cache EXCEPT !["teams"][op.club.id] =
                      [key |-> op.club.id, data |-> op.data, timestamp |-> op.ts]]

C2_Branch(i, k) ==
  LET a == analyses[i]
      store == IF a.stage = "C" THEN "match-lists" ELSE "match-details"
      key == IF a.stage = "C" THEN <<k, a.comp>> ELSE k
  IN /\ AnalysisGet(i, k, TRUE) =>
          IF Fresh(Entry(store, key))
          THEN /\ cache' = cache
               /\ SameStage(i) =>
                    /\ analyses'[i].br[k].pc = "done"
                    /\ analyses'[i].br[k].data = [value |-> Entry(store, key).data]
          ELSE analyses'[i].br[k].pc = "fetch" /\ cache' = cache
     /\ (/\ Branch(i, k) /\ a.br[k].pc # "fetch"
         /\ SameStage(i) /\ k \in DOMAIN analyses'[i].br
         /\ analyses'[i].br[k].pc = "fetch") =>
          a.br[k].pc = "get" /\ ~Fresh(Entry(store, key))
     /\ \A ver \in Vers :
          AnalysisResponse(i, k, "ok", ver) =>
            /\ analyses'[i].br[k].pc = "put"
            /\ analyses'[i].br[k].data =
                 [value |-> IF a.stage = "C" THEN RemoteMatchList(k, a.comp, ver)
                            ELSE RemoteMatch(k, ver)]
            /\ analyses'[i].br[k].ts = now
     /\ AnalysisPut(i, k, TRUE) =>
          cache' = [cache EXCEPT ![store][key] =
                      [key |-> key, data |-> a.br[k].data.value,
                       timestamp |-> a.br[k].ts]]

C2_CacheOrFetch ==
  [][/\ \A i \in SearchSlots : C2_Search(i)
     /\ \A i \in LoadSlots : C2_Load(i)
     /\ \A i \in AnalysisSlots, k \in BranchKeys : C2_Branch(i, k)]_vars

\* the team list of club 1, stored at time 0, has gone stale, has been
\* fetched again and has been overwritten with the later write time
C2_Witness ==
  /\ scope = "teams"
  /\ selectedClub = FoundClubs[1]
  /\ cache["teams"][1] # Null
  /\ cache["teams"][1].timestamp = 3600000
  /\ cache["teams"][1].data = allTeams

(***************************************************************************)
(* C3: a failed fetch never writes a cache entry: when the request of a    *)
(* stage rejects or is answered not-ok, the cache is left as it was, and   *)
(* an entry changes only in the step in which a call that holds an ok      *)
(* response for that very key stores it.                                   *)
(***************************************************************************)
\* a call stands at its setToDB for the entry (store, key) and item
PutPending(store, key, item) ==
  \/ /\ store = "club-search"
     /\ \E i \in SearchSlots :
          /\ searches[i].pc = "put"
          /\ key = <<searches[i].query, searches[i].season>>
          /\ item.data = searches[i].data /\ item.timestamp = searches[i].ts
  \/ /\ store = "teams"
     /\ \E i \in LoadSlots :
          /\ loads[i].pc = "put" /\ key = loads[i].club.id
          /\ item.data = loads[i].data /\ item.timestamp = loads[i].ts
  \/ /\ store \in {"match-lists", "match-details"}
     /\ \E i \in AnalysisSlots, k \in BranchKeys :
          /\ Branch(i, k) /\ analyses[i].br[k].pc = "put"
          /\ store = BranchStore(analyses[i])
          /\ key = BranchKey(analyses[i], k)
          /\ item.data = analyses[i].br[k].data.value
          /\ item.timestamp = analyses[i].br[k].ts

C3_FailedFetchStep ==
  \E r \in Failures, ver \in Vers :
    \/ \E i \in SearchSlots : SearchResponse(i, r, ver)
    \/ \E i \in LoadSlots : LoadResponse(i, r, ver)
    \/ \E i \in AnalysisSlots, k \in BranchKeys : AnalysisResponse(i, k, r, ver)

C3_FailedFetchNeverWrites ==
  [][/\ C3_FailedFetchStep => cache' = cache
     /\ \A store \in Stores : \A key \in KeysOf(store) :
          cache'[store][key] # cache[store][key] =>
            PutPending(store, key, cache'[store][key])]_vars

\* the request for the teams of the selected club has failed, and the
\* entry of that club is as it was before the request: absent
C3_Witness ==
  /\ scope = "teams"
  /\ selectedClub # Null
  /\ error = "Failed to fetch teams."
  /\ \A i \in LoadSlots : loads[i].pc = "idle"
  /\ cache["teams"][selectedClub.id] = Null

(***************************************************************************)
(* C4: no stale cross-club state after a club selection: in every state    *)
(* reached after selecting club B, allTeams is empty or the team list of   *)
(* club B.  (The claim says the like of playerUsage; the part about        *)
(* allTeams is already violated.)                                          *)
(***************************************************************************)
C4_NoCrossClubTeams ==
  selectedClub # Null =>
    \/ allTeams = <<>>
    \/ \E ver \in Vers : allTeams = RemoteTeams(selectedClub.id, ver)

(***************************************************************************)
(* C5: selecting a club resets allTeams, selectedTeamIds, competitionId    *)
(* and playerUsage to [], {}, null and null in the selection itself,       *)
(* before any team-list response arrives.                                  *)
(***************************************************************************)
C5_SelectionResets ==
  [][(\E i \in DOMAIN clubs : handleSelectClub(i)) =>
       /\ allTeams' = <<>>
       /\ selectedTeamIds' = <<>>
       /\ competitionId' = NoCompetition
       /\ playerUsage' = Null]_vars

(***************************************************************************)
(* C6: if one of the parallel match-list requests of an analysis fails,    *)
(* the analysis is aborted: playerUsage remains null, error is set, and    *)
(* the analysis issues no match-detail lookup or request.                  *)
(***************************************************************************)
\* a request of stage `stage` of the running analysis i fails in this step
RequestFails(i, stage) ==
  /\ analyses[i].pc = "run" /\ analyses[i].stage = stage
  /\ \E k \in BranchKeys, r \in Failures, ver \in Vers :
       AnalysisResponse(i, k, r, ver)

\* a branch of the aborted analysis i takes a step
AbortedBranchStep(i) ==
  /\ analyses[i].pc = "aborted"
  /\ \E k \in BranchKeys :
       \/ \E dbOk \in BOOLEAN : AnalysisGet(i, k, dbOk) \/ AnalysisPut(i, k, dbOk)
       \/ \E r \in Responses, ver \in Vers : AnalysisResponse(i, k, r, ver)

\* what an aborted analysis still does: it finishes the branches of the
\* stage it was aborted in, and shows nothing
AbortedStaysAborted(i) ==
  AbortedBranchStep(i) =>
    /\ playerUsage' = playerUsage /\ error' = error /\ loading' = loading
    /\ \/ analyses'[i].pc = "idle"
       \/ /\ analyses'[i].pc = "aborted"
          /\ analyses'[i].stage = analyses[i].stage
          /\ analyses'[i].keys = analyses[i].keys

C6_ListFailureAborts ==
  [][\A i \in AnalysisSlots :
       /\ RequestFails(i, "C") =>
            /\ playerUsage = Null /\ playerUsage' = Null
            /\ error' = "Failed fetching matches for team" \/ error' = TransportError
            /\ loading'.usage = FALSE
            /\ analyses'[i].pc \in {"aborted", "idle"}
            /\ analyses'[i].pc = "aborted" => analyses'[i].stage = "C"
            /\ cache' = cache
       /\ analyses[i].stage = "C" => AbortedStaysAborted(i)]_vars

\* the analysis of two teams is aborted by the failure of one match-list
\* request while the other team's branch is still on its way
C6_Witness ==
  \E i \in AnalysisSlots :
    /\ analyses[i].pc = "aborted" /\ analyses[i].stage = "C"
    /\ \E k \in DOMAIN analyses[i].br : analyses[i].br[k].pc = "fail"
    /\ error = "Failed fetching matches for team"
    /\ playerUsage = Null /\ ~loading.usage

(***************************************************************************)
(* C7: if one match-detail request of an analysis fails, the analysis is   *)
(* aborted with no partial aggregation: playerUsage stays null, it is      *)
(* never set from the match details that did succeed, and error is set.    *)
(***************************************************************************)
C7_DetailFailureAborts ==
  [][\A i \in AnalysisSlots :
       /\ RequestFails(i, "D") =>
            /\ playerUsage = Null /\ playerUsage' = Null
            /\ error' = "Failed fetching details for match" \/ error' = TransportError
            /\ loading'.usage = FALSE
            /\ analyses'[i].pc \in {"aborted", "idle"}
       /\ analyses[i].stage = "D" => AbortedStaysAborted(i)]_vars

\* a match-detail request has failed after another match detail of the
\* same analysis had been fetched and stored; there is no matrix
C7_Witness ==
  /\ scope = "usage"
  /\ error = "Failed fetching details for match"
  /\ playerUsage = Null /\ ~loading.usage
  /\ \A i \in AnalysisSlots : analyses[i].pc = "idle"
  /\ \E m \in MatchIds :
       cache["match-details"][m] # Null /\ cache["match-details"][m].timestamp > 0

(***************************************************************************)
(* C8: an analysis requested with no selected team or with no chosen       *)
(* competition fails at once with the validation error: error is set, no   *)
(* cache access, no request and no activity signal is issued, playerUsage  *)
(* and the loading flags are left as they are.                             *)
(***************************************************************************)
C8_ValidationOnly ==
  [][(/\ handleFetchPlayerUsage(TRUE)
      /\ Len(selectedTeamIds) = 0 \/ competitionId \in {NoCompetition, 0}) =>
       /\ error' = "Please select at least one team and a competition."
       /\ cache' = cache
       /\ analyses' = analyses
       /\ sessionArmedAt' = sessionArmedAt
       /\ playerUsage' = playerUsage
       /\ loading' = loading]_vars

\* the handler was called without a competition while an earlier analysis
\* was running, later than the last activity signal
C8_Witness ==
  /\ error = "Please select at least one team and a competition."
  /\ Len(selectedTeamIds) = 0 \/ competitionId \in {NoCompetition, 0}
  /\ loading.usage
  /\ sessionArmedAt < now

(***************************************************************************)
(* C9: when the union of the match ids of all selected teams' match lists  *)
(* is empty after stage C, the result is exactly                           *)
(* {players: {}, weeks: [], usage: {}} and no match-detail cache lookup or *)
(* request is made.                                                        *)
(***************************************************************************)
\* the last open branch k of stage C of the analysis i resolves to `list`
\* in this step, and every match list of the analysis is then empty
EmptyUnionAfter(i, k, list) ==
  LET a == analyses[i]
  IN /\ a.pc = "run" /\ a.stage = "C" /\ k \in DOMAIN a.br
     /\ list = <<>>
     /\ \A j \in DOMAIN a.br \ {k} :
          a.br[j].pc = "done" /\ a.br[j].data.value = <<>>

StageCEndsEmpty(i, k) ==
  \/ /\ AnalysisPut(i, k, TRUE)
     /\ EmptyUnionAfter(i, k, analyses[i].br[k].data.value)
  \/ /\ AnalysisGet(i, k, TRUE)
     /\ Fresh(Entry("match-lists", <<k, analyses[i].comp>>))
     /\ EmptyUnionAfter(i, k, Entry("match-lists", <<k, analyses[i].comp>>).data)

C9_EmptyUnion ==
  [][\A i \in AnalysisSlots, k \in TeamIds :
       StageCEndsEmpty(i, k) =>
         /\ playerUsage' = [players |-> <<>>, weeks |-> <<>>, usage |-> <<>>]
         /\ analyses'[i].pc = "idle"
         /\ cache'["match-details"] = cache["match-details"]
         /\ loading'.usage = FALSE
         /\ error' = error]_vars

\* teams 1 and 2 have been analysed in competition 2, in which neither has
\* a match: the result is the empty matrix and no match detail is stored
C9_Witness ==
  /\ playerUsage = [players |-> <<>>, weeks |-> <<>>, usage |-> <<>>]
  /\ started = 1
  /\ \A i \in AnalysisSlots : analyses[i].pc = "idle"
  /\ cache["match-lists"][<<1, 2>>] # Null /\ cache["match-lists"][<<2, 2>>] # Null
  /\ \A m \in MatchIds : cache["match-details"][m] = Null

(***************************************************************************)
(* C10: the clubs of a search hold exactly one Club per distinct id of the *)
(* kept raw entries.  As stated, that Club carries the name of the         *)
(* first-seen entry with the id; on the code it carries the name of the    *)
(* last-seen one, at the place of the first-seen one.                      *)
(***************************************************************************)
KeptAt(rawData) == {i \in DOMAIN rawData : KeepsClub(rawData[i])}
FirstKept(rawData, id) ==
  CHOOSE i \in KeptAt(rawData) :
    /\ rawData[i].value = id
    /\ \A j \in KeptAt(rawData) : rawData[j].value = id => i <= j
LastKept(rawData, id) ==
  CHOOSE i \in KeptAt(rawData) :
    /\ rawData[i].value = id
    /\ \A j \in KeptAt(rawData) : rawData[j].value = id => j <= i
KeptIds(rawData) == {rawData[i].value : i \in KeptAt(rawData)}
OnePerId(out, rawData) ==
  /\ {out[i].id : i \in DOMAIN out} = KeptIds(rawData)
  /\ \A i, j \in DOMAIN out : out[i].id = out[j].id => i = j

BlankName(name) == name \in {"", " ", "  "}

C11_DropsBlank ==
  fnRes # Null =>
    /\ \A i \in DOMAIN fnRes.value :
         fnRes.value[i].id # 0 /\ ~BlankName(fnRes.value[i].name)
    /\ \A j \in DOMAIN fnArg :
         (fnArg[j].value # 0 /\ ~BlankName(fnArg[j].label))
           => \E i \in DOMAIN fnRes.value : fnRes.value[i].id = fnArg[j].value

\* a raw list with an id of 0, a whitespace name and an entry that is kept
C11_Witness ==
  /\ fnRes # Null
  /\ \E j \in DOMAIN fnArg : fnArg[j].value = 0 /\ fnArg[j].label = "A"
  /\ \E j \in DOMAIN fnArg : fnArg[j].value # 0 /\ fnArg[j].label = " "
  /\ Len(fnRes.value) = 1

(***************************************************************************)
(* C12: fold exactness: usage[p]["Uke w"] is defined iff some fetched      *)
(* match of week w has a selected team on one side with player p on that   *)
(* side, and its value is the name of such a side's team; a match in which *)
(* neither side is selected contributes no week, no player and no cell.    *)
(***************************************************************************)
FoldPersonIds == {1, 2, 3, 4}
SidesOf(match) == {match.homeTeam, match.awayTeam}
PlaysOn(p, side) == \E i \in DOMAIN side.players : side.players[i].personId = p
\* the sides of the matches of week w that are selected and field player p
SelectedSidesWith(matches, selected, p, w) ==
  {side \in UNION {SidesOf(matches[i]) : i \in DOMAIN matches} :
     /\ \E i \in DOMAIN matches : matches[i].week = w /\ side \in SidesOf(matches[i])
     /\ side.id \in Range(selected)
     /\ PlaysOn(p, side)}
HasCell(usage, p, w) ==
  /\ ToString(p) \in DOMAIN usage
  /\ ("Uke " \o ToString(w)) \in DOMAIN usage[ToString(p)]

C12_FoldExact ==
  fnRes # Null =>
    LET out == fnRes.value
    IN \A p \in FoldPersonIds, w \in FoldWeeks :
         LET sides == SelectedSidesWith(fnArg.matches, fnArg.selected, p, w)
         IN /\ HasCell(out.usage, p, w) <=> sides # {}
            /\ HasCell(out.usage, p, w) =>
                 out.usage[ToString(p)]["Uke " \o ToString(w)]
                   \in {side.name : side \in sides}

(***************************************************************************)
(* C13: weeks contains each week number of a folded match exactly once,    *)
(* in ascending numeric order ("Uke 9" before "Uke 10"), each formatted    *)
(* "Uke {n}"; every week label used as a key of some usage[p] is in weeks. *)
(***************************************************************************)
\* a match is folded when one of its sides is a selected team
IsFolded(match, selected) ==
  \E side \in SidesOf(match) : side.id \in Range(selected)
FoldedWeeks(matches, selected) ==
  {matches[i].week : i \in {j \in DOMAIN matches : IsFolded(matches[j], selected)}}

C13_WeeksSorted ==
  fnRes # Null =>
    LET out == fnRes.value
        folded == FoldedWeeks(fnArg.matches, fnArg.selected)
    IN /\ Len(out.weeks) = Cardinality(folded)
       /\ \A w \in folded :
            out.weeks[Cardinality({v \in folded : v < w}) + 1]
              = "Uke " \o ToString(w)
       /\ \A p \in DOMAIN out.usage :
            DOMAIN out.usage[p] \subseteq Range(out.weeks)

\* week 10 is folded before week 9 and weeks lists 9 first
C13_Witness ==
  /\ fnRes # Null
  /\ Len(fnArg.matches) = 2
  /\ fnArg.matches[1].week = 10 /\ fnArg.matches[2].week = 9
  /\ fnRes.value.weeks = <<"Uke 9", "Uke 10">>
  /\ fnRes.value.usage # <<>>

(***************************************************************************)
(* C14: every key of usage is a key of players and conversely, and         *)
(* players[p] is "{firstName} {lastName}" of the first folded occurrence   *)
(* of personId p.                                                          *)
(***************************************************************************)
\* the occurrences of p: <<match index, player index>> on the folded sides
Occurrences(matches, selected, p) ==
  {occ \in (DOMAIN matches) \X (1..2) :
     /\ IsFolded(matches[occ[1]], selected)
     /\ occ[2] \in DOMAIN SideOf(matches[occ[1]], selected).players
     /\ ToString(SideOf(matches[occ[1]], selected).players[occ[2]].personId) = p}
Earlier(a, b) == a[1] < b[1] \/ (a[1] = b[1] /\ a[2] < b[2])
FullName(matches, selected, occ) ==
  LET player == SideOf(matches[occ[1]], selected).players[occ[2]]
  IN player.firstName \o " " \o player.lastName

C14_PlayersMatchUsage ==
  fnRes # Null =>
    LET out == fnRes.value
        occs(p) == Occurrences(fnArg.matches, fnArg.selected, p)
    IN /\ DOMAIN out.usage = DOMAIN out.players
       /\ \A p \in {ToString(n) : n \in FoldPersonIds} :
            p \in DOMAIN out.players <=> occs(p) # {}
       /\ \A p \in DOMAIN out.players :
            \E first \in occs(p) :
              /\ \A other \in occs(p) : ~Earlier(other, first)
              /\ out.players[p]
                   = FullName(fnArg.matches, fnArg.selected, first)

\* person 1 is folded twice under two names and keeps the first
C14_Witness ==
  /\ fnRes # Null
  /\ Len(fnArg.matches) = 2
  /\ Cardinality(Occurrences(fnArg.matches, fnArg.selected, "1")) = 2
  /\ FullName(fnArg.matches, fnArg.selected, <<1, 1>>) = "Ola Li"
  /\ FullName(fnArg.matches, fnArg.selected, <<2, 1>>) = "Ola Lie"
  /\ fnRes.value.players["1"] = "Ola Li"

(***************************************************************************)
(* C15: while authenticated, if no activity signal arrives for 30 minutes  *)
(* after the last signal or the initial authentication, the session ends:  *)
(* the token is set to null, the persisted credential is removed and the   *)
(* user is notified; the session never expires earlier than 30 minutes     *)
(* after the last activity signal.                                         *)
(***************************************************************************)
\* the last instant of the sampled session clock
LastInstant == MaxWindow * 1800000 + MaxDelay * 500
SessionEnds == token # NoToken /\ token' = NoToken

\* a session that ends without the Logout button ends by expiry: not before
\* 30 minutes after the timer was last armed, with the credential removed
\* and one notification; and nothing else notifies the user
C15_ExpiryStep ==
  [][/\ (SessionEnds /\ ~LogoutClick) =>
          /\ now >= sessionArmedAt + 1800000
          /\ authToken' = NoToken
          /\ alerts' = alerts + 1
          /\ PendingOf(timers', "session") = {}
     /\ alerts' # alerts => SessionEnds /\ ~LogoutClick]_vars

\* a session armed at instant a ends, unless a later signal re-arms it
C15_ExpiresEventually ==
  \A a \in SessionClockSamples :
    a + 1800000 <= LastInstant =>
      ((token # NoToken /\ sessionArmedAt = a)
         ~> (token = NoToken \/ sessionArmedAt # a))

C15_SessionExpiry == C15_ExpiryStep /\ C15_ExpiresEventually

\* the session has expired exactly 30 minutes after a search re-armed it
C15_Witness ==
  /\ token = NoToken /\ authToken = NoToken
  /\ alerts = 1
  /\ sessionArmedAt = 1800000
  /\ now = sessionArmedAt + 1800000
  /\ started = 1

(***************************************************************************)
(* C16: every user action that triggers a cache lookup or a fetch (club    *)
(* search, team-list load after a club selection, analysis) re-arms the    *)
(* inactivity timer, and does so before its first cache access.            *)
(***************************************************************************)
\* the step in which an operation starts: a free slot is taken
SearchStarts(i) == searches[i].pc = "idle" /\ searches'[i].pc # "idle"
LoadStarts(i) == loads[i].pc = "idle" /\ loads'[i].pc # "idle"
AnalysisStarts(i) == analyses[i].pc = "idle" /\ analyses'[i].pc # "idle"

\* after the step the one pending inactivity timer is the one armed in it
RearmedNow ==
  /\ sessionArmedAt' = now
  /\ \E t \in timers' :
       /\ t.id = sessionTimeoutRef'
       /\ PendingOf(timers', "session") = {t}
       /\ t.due = now + 1800000

C16_StartRearms ==
  [][/\ \A i \in SearchSlots :
          SearchStarts(i) =>
            RearmedNow /\ cache' = cache /\ searches'[i].pc = "get"
     /\ \A i \in LoadSlots :
          LoadStarts(i) =>
            RearmedNow /\ cache' = cache /\ loads'[i].pc = "get"
     /\ \A i \in AnalysisSlots :
          AnalysisStarts(i) =>
            /\ RearmedNow /\ cache' = cache
            /\ \A k \in DOMAIN analyses'[i].br : analyses'[i].br[k].pc = "get"]_vars

\* a search has started an hour into the session and stands before its
\* cache lookup, the inactivity timer armed anew
C16_Witness ==
  /\ now = 3600000
  /\ sessionArmedAt = now
  /\ \E i \in SearchSlots : searches[i].pc = "get"
  /\ \E t \in timers : t.kind = "session" /\ t.due = 5400000

(***************************************************************************)
(* C17: the debounce timer and the inactivity timer are single-shot and    *)
(* cancel-and-reschedule: in every reachable state at most one debounce    *)
(* timer and at most one inactivity timer is pending, every new triggering *)
(* event (query or season change, activity signal) cancels the pending     *)
(* one, and only the most recently scheduled timer ever fires.             *)
(***************************************************************************)
\* at most one timer of each kind is pending, and it is the one scheduled
\* last: the one the reference holds, scheduled for the current query and
\* season, or at the last arming
C17_OnePending ==
  /\ Cardinality(PendingOf(timers, "debounce")) <= 1
  /\ Cardinality(PendingOf(timers, "session")) <= 1
  /\ \A t \in PendingOf(timers, "debounce") :
       /\ t.id = debounce
       /\ t.arg = [query |-> clubQuery, season |-> seasonId]
  /\ \A t \in PendingOf(timers, "session") :
       /\ t.id = sessionTimeoutRef
       /\ t.due = sessionArmedAt + 1800000

\* a triggering event leaves no timer pending but the one it schedules,
\* and a timer that runs is the one scheduled last
C17_Reschedules ==
  /\ (clubQuery' # clubQuery \/ seasonId' # seasonId) =>
       \A t \in PendingOf(timers', "debounce") :
         t.arg = [query |-> clubQuery', season |-> seasonId']
  /\ (\E i \in SearchSlots : SearchStarts(i)) =>
       \A t \in PendingOf(timers', "session") : t.due = now + 1800000
  /\ (\E i \in SearchSlots : SearchStarts(i) /\ debounce # 0 /\ debounce' = 0) =>
       /\ searches'[CHOOSE i \in SearchSlots : SearchStarts(i)].query = clubQuery
       /\ searches'[CHOOSE i \in SearchSlots : SearchStarts(i)].season = seasonId
  /\ alerts' # alerts => now >= sessionArmedAt + 1800000

C17_SingleShot == []C17_OnePending /\ [][C17_Reschedules]_vars

\* the season was changed while a debounce timer was pending, and a search
\* has re-armed the inactivity timer: one timer of each kind is pending
C17_Witness ==
  /\ clubQuery = "nes" /\ seasonId = "108"
  /\ \E t \in timers : t.kind = "debounce" /\ t.arg.season = "108"
  /\ \E t \in timers : t.kind = "session" /\ t.due = 3600000
  /\ \E i \in SearchSlots : searches[i].pc = "get" /\ searches[i].season = "109"

(***************************************************************************)
(* C18: mock login: an attempt with a non-empty username and a non-empty   *)
(* password succeeds after the 500 ms delay, setting a fresh token and     *)
(* persisting it; an attempt where username or password is empty fails     *)
(* with a validation error, leaving the token null and the persisted       *)
(* credential unchanged; in both cases the login loading flag is cleared   *)
(* when the delay elapses.                                                 *)
(***************************************************************************)
\* the step in which the delay of login attempt t elapses
LoginElapses(t) == t \in timers /\ t.kind = "login" /\ t \notin timers'
\* the step in which an attempt is made
LoginAttempted == ~loginLoading /\ loginLoading'

C18_MockLogin ==
  [][/\ LoginAttempted =>
          /\ loginError' = NoError /\ token' = token /\ authToken' = authToken
          /\ \E t \in timers' \ timers :
               t.kind = "login" /\ t.due = now + 500
     /\ \A t \in timers :
          LoginElapses(t) =>
            /\ now >= t.due
            /\ loginLoading /\ ~loginLoading'
            /\ IF t.arg.username # "" /\ t.arg.password # ""
               THEN /\ token' = "dummy-token-" \o ToString(now)
                    /\ authToken' = token'
                    /\ loginError' = NoError
               ELSE /\ loginError' = "Please enter a username and password."
                    /\ token = NoToken /\ token' = NoToken
                    /\ authToken' = authToken]_vars

\* an attempt with an empty password has failed when its delay elapsed
C18_Witness ==
  /\ now = 500
  /\ loginError = "Please enter a username and password."
  /\ token = NoToken /\ authToken = NoToken
  /\ ~loginLoading
  /\ timers = {}

(***************************************************************************)
(* C19: a club query shorter than 3 characters clears the club results     *)
(* without any fetch: for every way of triggering a search (typing or      *)
(* submitting the search form) with a query of length < 3, no club-search  *)
(* cache lookup and no network request is issued, and clubs is empty.      *)
(***************************************************************************)
C19_ShortQueryNoFetch ==
  [][/\ \A i \in SearchSlots :
          SearchStarts(i) => Len(searches'[i].query) >= 3
     /\ (clubQuery' # clubQuery /\ Len(clubQuery') < 3) => clubs' = <<>>]_vars

(***************************************************************************)
(* C20: cache read-your-writes: after any sequence of successful setToDB   *)
(* and getFromDB calls, getFromDB(store, key) resolves to the entry most   *)
(* recently written with setToDB to that store under that key, and to null *)
(* if no entry was ever written there; writes to other keys or to other    *)
(* stores never change the result.                                         *)
(***************************************************************************)
\* the places in the log of the writes to a store under a key
WritesTo(log, storeName, key) ==
  {i \in DOMAIN log : log[i].storeName = storeName /\ log[i].item.key = key}
LastOf(places) == CHOOSE i \in places : \A j \in places : j <= i

C20_ReadYourWrites ==
  fnRes # Null =>
    LET places == WritesTo(fnArg, fnRes.storeName, fnRes.key)
    IN IF places = {} THEN fnRes.value = Null
       ELSE fnRes.value = fnArg[LastOf(places)].item

\* club 1 was stored twice in teams, then match 1 in match-details; the
\* read of teams under 1 gives the second entry
C20_Witness ==
  /\ Len(fnArg) = 3
  /\ fnArg[1].storeName = "teams" /\ fnArg[1].item.key = 1
  /\ fnArg[2].storeName = "teams" /\ fnArg[2].item.key = 1
  /\ fnArg[2].item # fnArg[1].item
  /\ fnArg[3].storeName = "match-details" /\ fnArg[3].item.key = 1
  /\ fnRes # Null /\ fnRes.storeName = "teams" /\ fnRes.key = 1
  /\ fnRes.value = fnArg[2].item

(***************************************************************************)
(* C21: each of the operations club search, team-list load and analysis    *)
(* sets error to null when it starts its cache/fetch work, and sets error  *)
(* to a non-null message only when that operation fails; an operation that *)
(* completes successfully never sets error.                                *)
(***************************************************************************)
\* a step of an operation in which nothing fails
SucceedingStep ==
  \/ \E i \in SearchSlots :
       \/ SearchGet(i, TRUE) \/ SearchPut(i, TRUE)
       \/ \E ver \in Vers : SearchResponse(i, "ok", ver)
  \/ \E i \in LoadSlots :
       \/ LoadGet(i, TRUE) \/ LoadPut(i, TRUE)
       \/ \E ver \in Vers : LoadResponse(i, "ok", ver)
  \/ \E i \in AnalysisSlots, k \in BranchKeys :
       \/ AnalysisGet(i, k, TRUE) \/ AnalysisPut(i, k, TRUE)
       \/ \E ver \in Vers : AnalysisResponse(i, k, "ok", ver)

\* a step in which an operation fails: a cache access or a request of it
\* fails, or the analysis is refused by its validation
FailingStep ==
  \/ \E i \in SearchSlots :
       \/ SearchGet(i, FALSE) \/ SearchPut(i, FALSE)
       \/ \E r \in Failures, ver \in Vers : SearchResponse(i, r, ver)
  \/ \E i \in LoadSlots :
       \/ LoadGet(i, FALSE) \/ LoadPut(i, FALSE)
       \/ \E r \in Failures, ver \in Vers : LoadResponse(i, r, ver)
  \/ \E i \in AnalysisSlots, k \in BranchKeys :
       \/ AnalysisGet(i, k, FALSE) \/ AnalysisPut(i, k, FALSE)
       \/ \E r \in Failures, ver \in Vers : AnalysisResponse(i, k, r, ver)
  \/ /\ Len(selectedTeamIds) = 0 \/ competitionId \in {NoCompetition, 0}
     /\ handleFetchPlayerUsage(TRUE)

C21_ErrorLifecycle ==
  [][/\ \A i \in SearchSlots : SearchStarts(i) => error' = NoError
     /\ \A i \in LoadSlots : LoadStarts(i) => error' = NoError
     /\ \A i \in AnalysisSlots : AnalysisStarts(i) => error' = NoError
     /\ SucceedingStep => error' = error
     /\ (error' # error /\ error' # NoError) => FailingStep]_vars

\* the first search of the run has failed, nothing is stored, and the
\* second search has started and cleared the error of the first
C21_Witness ==
  /\ scope = "search" /\ started = 2
  /\ \A key \in KeysOf("club-search") : cache["club-search"][key] = Null
  /\ \E i \in SearchSlots :
       /\ searches[i].pc = "get"
       /\ \A j \in SearchSlots \ {i} : searches[j].pc = "idle"
  /\ error = NoError

(***************************************************************************)
(* C22: there is no fallback when the cache storage is unavailable: in     *)
(* every stage, if the cache read fails, the operation issues no request   *)
(* for that key and ends with error set; if the cache write after a        *)
(* successful fetch fails, the operation ends with error set (for the      *)
(* analysis playerUsage stays null, for the club search clubs is reset to  *)
(* empty).                                                                 *)
(***************************************************************************)
C22_NoFallback ==
  [][/\ \A i \in SearchSlots :
          (SearchGet(i, FALSE) \/ SearchPut(i, FALSE)) =>
            /\ error' # NoError
            /\ clubs' = <<>>
            /\ searches'[i].pc = "idle"
            /\ loading'.clubs = FALSE
            /\ cache' = cache
     /\ \A i \in LoadSlots :
          (LoadGet(i, FALSE) \/ LoadPut(i, FALSE)) =>
            /\ error' # NoError
            /\ loads'[i].pc = "idle"
            /\ loading'.teams = FALSE
            /\ cache' = cache
     /\ \A i \in AnalysisSlots, k \in BranchKeys :
          (/\ analyses[i].pc = "run"
           /\ AnalysisGet(i, k, FALSE) \/ AnalysisPut(i, k, FALSE)) =>
            /\ error' # NoError
            /\ playerUsage = Null /\ playerUsage' = Null
            /\ analyses'[i].pc \in {"aborted", "idle"}
            /\ analyses'[i].pc = "aborted" =>
                 /\ analyses'[i].stage = analyses[i].stage
                 /\ analyses'[i].br[k].pc = "fail"
            /\ loading'.usage = FALSE
            /\ cache' = cache]_vars

\* a match list was fetched, its write to the cache has failed, and the
\* analysis is aborted with the error set, no matrix and nothing stored
C22_Witness ==
  \E i \in AnalysisSlots, k \in TeamIds :
    /\ analyses[i].pc = "aborted" /\ analyses[i].stage = "C"
    /\ k \in DOMAIN analyses[i].br
    /\ analyses[i].br[k].pc = "fail" /\ analyses[i].br[k].data # Null
    /\ error = StorageError
    /\ playerUsage = Null /\ ~loading.usage
    /\ cache["match-lists"][<<k, analyses[i].comp>>] = Null

(***************************************************************************)
(* C23: last write wins without corruption: when overlapping operations    *)
(* both miss the cache for the same store and key and both fetch and       *)
(* write, the stored entry is after both have completed exactly the entry  *)
(* of the write performed last, always one of the entries written in full, *)
(* and both operations complete without a storage error.                   *)
(***************************************************************************)
\* the cache after the entry `item` has replaced what the store held under
\* its key
Overwritten(store, item) ==
  [s \in Stores |->
     [key \in KeysOf(s) |->
        IF s = store /\ key = item.key THEN item ELSE cache[s][key]]]

\* a write that succeeds stores the whole entry of the writing call,
\* whatever another call has stored under the key in the meantime, and the
\* call ends without an error
C23_WriteStep ==
  /\ \A i \in SearchSlots :
       SearchPut(i, TRUE) =>
         /\ cache' = Overwritten("club-search",
                       [key |-> <<searches[i].query, searches[i].season>>,
                        data |-> searches[i].data,
                        timestamp |-> searches[i].ts])
         /\ searches'[i].pc = "idle" /\ error' = error
  /\ \A i \in LoadSlots :
       LoadPut(i, TRUE) =>
         /\ cache' = Overwritten("teams",
                       [key |-> loads[i].club.id, data |-> loads[i].data,
                        timestamp |-> loads[i].ts])
         /\ loads'[i].pc = "idle" /\ error' = error
  /\ \A i \in AnalysisSlots, k \in BranchKeys :
       AnalysisPut(i, k, TRUE) =>
         /\ cache' = Overwritten(
                       IF analyses[i].stage = "C" THEN "match-lists"
                       ELSE "match-details",
                       [key |-> IF analyses[i].stage = "C"
                                THEN <<k, analyses[i].comp>> ELSE k,
                        data |-> analyses[i].br[k].data.value,
                        timestamp |-> analyses[i].br[k].ts])
         /\ error' = error

\* the store holds under a key only what some call has written there whole
C23_OnlyWrites ==
  \A store \in Stores : \A key \in KeysOf(store) :
    cache'[store][key] # cache[store][key] =>
      /\ cache'[store][key].key = key
      /\ PutPending(store, key, cache'[store][key])

C23_LastWriteWins == [][C23_WriteStep /\ C23_OnlyWrites]_vars

\* two searches for "nes" have overlapped: the first was answered at time
\* 0, the second started and was answered an hour later and stored its
\* entry, and then the first stored its own.  Both have ended without an
\* error, and the store holds the entry written last, which is the older.
C23_Witness ==
  /\ scope = "search" /\ started = 2
  /\ now = 3600000 /\ sessionArmedAt = 3600000
  /\ \A i \in SearchSlots : searches[i].pc = "idle"
  /\ error = NoError
  /\ cache["club-search"][<<"ne", "109">>] = Null
  /\ cache["club-search"][<<"nes", "109">>] # Null
  /\ cache["club-search"][<<"nes", "109">>].timestamp = 0

(***************************************************************************)
(* C24: season codec round trip: yearForSeasonId(seasonIdForYear(y)) = y   *)
(* for every integer year y, where seasonIdForYear(y) is the decimal       *)
(* string of y - 1917.                                                     *)
(***************************************************************************)
C24_RoundTrip ==
  fnRes # Null => fnRes.year = fnArg

(***************************************************************************)
(* C24, amended: the round trip gives y back for every integer year y      *)
(* that, like y - 1917, is held exactly and written in plain decimal       *)
(* digits (a leading '-' below zero), which is so for the safe integers.   *)
(***************************************************************************)
C24_RoundTripExact ==
  (fnRes # Null /\ fnArg.exp = 0) =>
    /\ fnRes.year = fnArg
    /\ fnRes.seasonId =
         IF fnArg.sig < 1917 THEN <<"-">> \o NatToChars(1917 - fnArg.sig)
         ELSE NatToChars(fnArg.sig - 1917)

\* the year 1900 was encoded as "-17" and decoded to 1900
C24_Witness ==
  /\ fnRes # Null
  /\ fnArg = [nan |-> FALSE, sig |-> 1900, exp |-> 0]
  /\ fnRes.seasonId = <<"-", "1", "7">>
  /\ fnRes.year = fnArg

(***************************************************************************)
(* C25: in every reachable state of the session component the in-memory    *)
(* token equals the persisted credential: token is non-null exactly when a *)
(* credential is stored under 'authToken', and they hold the same string;  *)
(* login sets both, and logout and inactivity expiry clear both.           *)
(***************************************************************************)
C25_SameCredential ==
  /\ token # NoToken <=> authToken # NoToken
  /\ token = authToken

\* the credential changes with the token, in login, logout and expiry alike
C25_ChangeTogether ==
  /\ (token' # token \/ authToken' # authToken) =>
       /\ token' = authToken'
       /\ \/ token = NoToken /\ token' = "dummy-token-" \o ToString(now)
          \/ token # NoToken /\ token' = NoToken
  /\ (LogoutClick \/ \E t \in timers : SessionExpire(t)) =>
       token' = NoToken /\ authToken' = NoToken

C25_TokenPersisted == []C25_SameCredential /\ [][C25_ChangeTogether]_vars

\* the session has expired once and the user has logged in again: token
\* and credential hold the string issued by the second login
C25_Witness ==
  /\ alerts = 1
  /\ token # NoToken /\ token # "dummy-token-0"
  /\ authToken = token

(***************************************************************************)
(* C26: competition choices: when at least one team is selected, the       *)
(* offered competitions are exactly the competitions attached to at least  *)
(* one selected team (the union of the selected teams' competition lists,  *)
(* one entry per competition id, sorted by name), not the competitions     *)
(* common to all selected teams; when no team is selected, they are all    *)
(* competitions of all teams of the club (the loaded team list).           *)
(***************************************************************************)
\* the places in allTeams of the selected teams
SelectedPlaces == {i \in DOMAIN allTeams : SetHas(selectedTeamIds, allTeams[i].id)}
\* the competitions attached to at least one of the teams at `places`
AttachedTo(places) ==
  {c \in CompetitionIds :
     \E i \in places : \E j \in DOMAIN allTeams[i].competitions :
       allTeams[i].competitions[j].id = c}
\* the competitions attached to every team at `places`
CommonTo(places) ==
  {c \in CompetitionIds :
     \A i \in places : \E j \in DOMAIN allTeams[i].competitions :
       allTeams[i].competitions[j].id = c}

C26_OfferedUnion ==
  LET offered == selectedTeamsCompetitions
      ids == {offered[i].id : i \in DOMAIN offered}
  IN /\ ids = IF Len(selectedTeamIds) > 0 THEN AttachedTo(SelectedPlaces)
              ELSE AttachedTo(DOMAIN allTeams)
     /\ ids = selectedTeamsCompetitionIds
     /\ \A i, j \in DOMAIN offered :
          /\ offered[i].id = offered[j].id => i = j
          /\ i < j => NameRank(offered[i].name) < NameRank(offered[j].name)
     /\ \A i \in DOMAIN offered :
          offered[i].name = IF offered[i].id = 1 THEN "Serie" ELSE "Cup"

\* teams 1 and 2 are selected: Cup, which only team 2 plays, is offered
\* before Serie, which both play
C26_Witness ==
  /\ SetHas(selectedTeamIds, 1) /\ SetHas(selectedTeamIds, 2)
  /\ selectedTeamsCompetitions =
       <<[id |-> 2, name |-> "Cup"], [id |-> 1, name |-> "Serie"]>>
  /\ CommonTo(SelectedPlaces) = {1}

(***************************************************************************)
(* C27: within one analysis, a match id that appears in the match lists of *)
(* several selected teams (or several times in one list) is looked up /    *)
(* fetched in match-details exactly once, and its match is folded exactly  *)
(* once; the match-details key is the match id alone, independent of team  *)
(* and competition.                                                        *)
(***************************************************************************)
\* what the branch k of the analysis i resolves to, in the step in which
\* the last branch of its stage settles: the data it holds, or the cache
\* entry it is about to read
Outcome(i, k) ==
  LET a == analyses[i]
  IN IF a.br[k].pc = "get"
     THEN Entry(IF a.stage = "C" THEN "match-lists" ELSE "match-details",
                IF a.stage = "C" THEN <<k, a.comp>> ELSE k).data
     ELSE a.br[k].data.value

\* the match ids in the match lists of the analysis i
ListedIds(i) ==
  UNION {{Outcome(i, k)[n].id : n \in DOMAIN Outcome(i, k)} :
           k \in DOMAIN analyses[i].br}

\* progress of a branch: looked up, then requested, then stored
Progress(pc) ==
  CASE pc = "get" -> 1 [] pc = "fetch" -> 2 [] pc = "put" -> 3 [] OTHER -> 4

StageDStarts(i) ==
  /\ analyses[i].pc = "run" /\ analyses[i].stage = "C"
  /\ analyses'[i].pc = "run" /\ analyses'[i].stage = "D"

StageDEnds(i) ==
  /\ analyses[i].pc = "run" /\ analyses[i].stage = "D"
  /\ analyses'[i].pc = "idle" /\ playerUsage' # Null

C27_OncePerMatch ==
  [][\A i \in AnalysisSlots :
       \* one detail branch per distinct listed id, each before its lookup
       /\ StageDStarts(i) =>
            /\ Len(analyses'[i].keys) = Cardinality(ListedIds(i))
            /\ Range(analyses'[i].keys) = ListedIds(i)
            /\ DOMAIN analyses'[i].br = ListedIds(i)
            /\ \A m \in ListedIds(i) : analyses'[i].br[m].pc = "get"
       \* no branch is added, none starts over
       /\ (analyses[i].stage = "D" /\ analyses[i].pc # "idle" /\ SameStage(i)) =>
            /\ analyses'[i].keys = analyses[i].keys
            /\ \A m \in DOMAIN analyses[i].br :
                 Progress(analyses'[i].br[m].pc) >= Progress(analyses[i].br[m].pc)
       \* the entry read and written is the one under the match id
       /\ \A m \in MatchIds :
            (analyses[i].stage = "D" /\ AnalysisPut(i, m, TRUE)) =>
              /\ cache'["match-details"][m].key = m
              /\ cache'["match-details"][m].data = analyses[i].br[m].data.value
              /\ \A n \in MatchIds \ {m} :
                   cache'["match-details"][n] = cache["match-details"][n]
              /\ cache'["match-lists"] = cache["match-lists"]
       \* the matrix is the fold of one match per distinct id
       /\ StageDEnds(i) =>
            /\ playerUsage' =
                 PlayerUsageOf([n \in DOMAIN analyses[i].keys |->
                                  Outcome(i, analyses[i].keys[n])],
                               analyses[i].teams)
            /\ \A n, o \in DOMAIN analyses[i].keys :
                 analyses[i].keys[n] = analyses[i].keys[o] => n = o]_vars

\* teams 1 and 2 are analysed in competition 1; match 1 is in the match
\* list of both, and stage D runs with one branch for match 1 and one for
\* match 2
C27_Witness ==
  \E i \in AnalysisSlots :
    /\ analyses[i].pc = "run" /\ analyses[i].stage = "D"
    /\ Range(analyses[i].teams) = {1, 2}
    /\ cache["match-lists"][<<1, 1>>] # Null
    /\ cache["match-lists"][<<1, 1>>].data = <<[id |-> 1], [id |-> 2]>>
    /\ cache["match-lists"][<<2, 1>>] # Null
    /\ cache["match-lists"][<<2, 1>>].data = <<[id |-> 1]>>
    /\ Len(analyses[i].keys) = 2
    /\ DOMAIN analyses[i].br = {1, 2}

(***************************************************************************)
(* C28: apiFetch issues exactly one request per call (no retry) whose      *)
(* headers contain Authorization = "Bearer <token>" and Content-Type =     *)
(* "application/json" for every token and every options value, also when   *)
(* options.headers supplies them (the adapter's values win); every other   *)
(* caller-supplied option and header is passed through unchanged, and a    *)
(* non-2xx response is returned to the caller rather than thrown.          *)
(***************************************************************************)
\* the headers the caller supplied, as a header list
HeaderEntries(headers) ==
  IF headers.kind = "undefined" THEN <<>> ELSE headers.entries
CallerHeaders == HeaderList(HeaderEntries(fnArg.options.headers))
Injected == {"authorization", "content-type"}

C28_InjectAndPassThrough ==
  fnRes # Null =>
    /\ Len(fnRes.requests) = 1
    /\ LET request == fnRes.requests[1]
       IN /\ HeaderValues(request.headers, "authorization")
               = <<"Bearer " \o fnArg.token>>
          /\ HeaderValues(request.headers, "content-type") = <<"application/json">>
          /\ request.url = fnArg.url
          /\ request.method = fnArg.options.method
          /\ \A i \in DOMAIN CallerHeaders :
               CallerHeaders[i].name \notin Injected =>
                 HeaderValues(request.headers, CallerHeaders[i].name)
                   = <<CallerHeaders[i].value>>
          /\ \A i \in DOMAIN request.headers :
               \/ request.headers[i].name \in Injected
               \/ \E j \in DOMAIN CallerHeaders :
                    CallerHeaders[j].name = request.headers[i].name
    /\ fnRes.response = "status" => fnRes.promise = "fulfilled"

(***************************************************************************)
(* C29: the displayed club results belong to the latest query: once every  *)
(* club search in flight has settled, clubs is the result for the current  *)
(* (clubQuery, seasonId), or empty if the query has fewer than 3           *)
(* characters or a club was selected; the response of an earlier search    *)
(* that arrives after the query changed, was shortened below 3 characters  *)
(* or after a club was selected never overwrites clubs.                    *)
(***************************************************************************)
SearchesSettled ==
  /\ \A i \in SearchSlots : searches[i].pc = "idle"
  /\ PendingOf(timers, "debounce") = {}

\* the search i takes a step
SearchStep(i) == searches[i].pc # "idle" /\ searches'[i] # searches[i]

\* the search i was started for another query or season than the current one
Outdated(i) == searches[i].query # clubQuery \/ searches[i].season # seasonId

C29_Settled ==
  (SearchesSettled /\ Len(clubQuery) < 3) => clubs = <<>>

C29_NoLateOverwrite ==
  \A i \in SearchSlots : (SearchStep(i) /\ Outdated(i)) => clubs' = clubs

C29_LatestQueryShown == []C29_Settled /\ [][C29_NoLateOverwrite]_vars

(***************************************************************************)
(* C30: the loading flags are accurate under overlap: in every reachable   *)
(* state loading.clubs (loading.teams, loading.usage) is true whenever at  *)
(* least one club search (team-list load, analysis) is still in flight,    *)
(* also when several operations of one kind overlap and one of them        *)
(* finishes before the others.                                             *)
(***************************************************************************)
C30_ClubsFlag ==
  (\E i \in SearchSlots : searches[i].pc # "idle") => loading.clubs
C30_TeamsFlag ==
  (\E i \in LoadSlots : loads[i].pc # "idle") => loading.teams
C30_UsageFlag ==
  (\E i \in AnalysisSlots : analyses[i].pc = "run") => loading.usage

C30_LoadingAccurate == C30_ClubsFlag /\ C30_TeamsFlag /\ C30_UsageFlag

(***************************************************************************)
(* C31: after the session became Anonymous (manual logout or inactivity    *)
(* expiry) no further bearer-authenticated request is issued and no        *)
(* further cache write is performed on behalf of the ended session, also   *)
(* when a team-list load or an analysis was in flight at the logout.       *)
(***************************************************************************)
\* a call of apiFetch: a team-list load or a branch of an analysis goes from
\* its cache lookup to its request
RequestIssued ==
  \/ \E i \in LoadSlots : loads[i].pc = "get" /\ loads'[i].pc = "fetch"
  \/ \E i \in AnalysisSlots :
       \E k \in DOMAIN analyses[i].br \cap DOMAIN analyses'[i].br :
         /\ SameStage(i)
         /\ analyses[i].br[k].pc = "get" /\ analyses'[i].br[k].pc = "fetch"

Anonymous == token = NoToken

C31_QuietAfterLogout ==
  [][Anonymous => (~RequestIssued /\ cache' = cache)]_vars

(***************************************************************************)
(* C32: in every reachable state in which the session is Anonymous (token  *)
(* null) no inactivity timer is pending: manual logout and expiry both     *)
(* cancel the timer, so the expiry and its notification fire only while    *)
(* Authenticated and never after a manual logout.                          *)
(***************************************************************************)
C32_NoTimer == Anonymous => PendingOf(timers, "session") = {}

\* the alert of the expiry is raised in a step that ends a running session
C32_AlertEndsSession ==
  alerts' # alerts =>
    /\ ~Anonymous
    /\ token' = NoToken
    /\ alerts' = alerts + 1
    /\ PendingOf(timers', "session") = {}

C32_NoTimerWhenAnonymous == []C32_NoTimer /\ [][C32_AlertEndsSession]_vars

\* the user logged out by hand after activity had armed the timer anew
C32_Witness ==
  /\ Anonymous /\ authToken = NoToken
  /\ alerts = 0
  /\ sessionArmedAt > 0
  /\ timers = {}

(***************************************************************************)
(* C33: if every cache operation and every request eventually settles,     *)
(* every started club search, team-list load and analysis eventually       *)
(* finishes and clears its own loading flag; an analysis that passed       *)
(* validation finishes having set playerUsage to a non-null result or      *)
(* error to a non-null message, never neither.                             *)
(***************************************************************************)
SearchFinishes(i) == searches[i].pc # "idle" /\ searches'[i].pc = "idle"
LoadFinishes(i) == loads[i].pc # "idle" /\ loads'[i].pc = "idle"
AnalysisFinishes(i) == analyses[i].pc = "run" /\ analyses'[i].pc # "run"

C33_Finishing ==
  /\ \A i \in SearchSlots : SearchFinishes(i) => ~loading'.clubs
  /\ \A i \in LoadSlots : LoadFinishes(i) => ~loading'.teams
  /\ \A i \in AnalysisSlots :
       AnalysisFinishes(i) =>
         /\ ~loading'.usage
         /\ playerUsage' # Null \/ error' # NoError
         /\ playerUsage' # Null => error' = NoError

C33_Terminates ==
  /\ \A i \in SearchSlots :
       (searches[i].pc # "idle") ~> (searches[i].pc = "idle")
  /\ \A i \in LoadSlots : (loads[i].pc # "idle") ~> (loads[i].pc = "idle")
  /\ \A i \in AnalysisSlots :
       (analyses[i].pc = "run") ~> (analyses[i].pc # "run")
  /\ [][C33_Finishing]_vars

\* an analysis ended on a failed request of stage D: the error is set, the
\* matrix is not, the flag is cleared
C33_Witness ==
  /\ scope = "usage" /\ started = 1
  /\ \A i \in AnalysisSlots : analyses[i].pc # "run"
  /\ ~loading.usage
  /\ error = "Failed fetching details for match"
  /\ playerUsage = Null

(***************************************************************************)
(* C34: in every reachable state a non-null competitionId is one of the    *)
(* competitions currently offered for the selection                        *)
(* (selectedTeamsCompetitions): after any sequence of team toggles and     *)
(* club selections an analysis never runs with a competition that is       *)
(* attached to none of the selected teams.                                 *)
(***************************************************************************)
OfferedIds ==
  {selectedTeamsCompetitions[n].id : n \in DOMAIN selectedTeamsCompetitions}

C34_Offered == ~Falsy(competitionId) => competitionId \in OfferedIds

\* an analysis starts with the selection and the competition of the state
C34_Run ==
  (\E i \in AnalysisSlots : AnalysisStarts(i)) =>
    competitionId \in AttachedTo(SelectedPlaces)

C34_CompetitionOffered == []C34_Offered /\ [][C34_Run]_vars

(***************************************************************************)
(* C35: side selection in the fold: of each fetched match one side is      *)
(* folded, the home side if homeTeam.id is selected and otherwise the away *)
(* side if awayTeam.id is selected; when both sides are selected teams     *)
(* only the players of the home side are recorded, and the players of the  *)
(* away side get no usage cell from that match.                            *)
(***************************************************************************)
\* the side of a match the claim has folded: none when no side is selected
FoldedSide(match, selected) ==
  IF match.homeTeam.id \in Range(selected) THEN {match.homeTeam}
  ELSE IF match.awayTeam.id \in Range(selected) THEN {match.awayTeam}
  ELSE {}

\* the folded sides of the matches of week w that field player p
FoldedSidesWith(matches, selected, p, w) ==
  {side \in UNION {FoldedSide(matches[i], selected) :
                     i \in {j \in DOMAIN matches : matches[j].week = w}} :
     PlaysOn(p, side)}

C35_OneSide ==
  fnRes # Null =>
    LET out == fnRes.value
    IN /\ \A p \in FoldPersonIds, w \in FoldWeeks :
            LET sides == FoldedSidesWith(fnArg.matches, fnArg.selected, p, w)
            IN /\ HasCell(out.usage, p, w) <=> sides # {}
               /\ HasCell(out.usage, p, w) =>
                    out.usage[ToString(p)]["Uke " \o ToString(w)]
                      \in {side.name : side \in sides}
       /\ \A p \in FoldPersonIds :
            ToString(p) \in DOMAIN out.players <=>
              \E w \in FoldWeeks :
                FoldedSidesWith(fnArg.matches, fnArg.selected, p, w) # {}
       /\ Len(out.weeks) =
            Cardinality({fnArg.matches[i].week :
                           i \in {j \in DOMAIN fnArg.matches :
                                    FoldedSide(fnArg.matches[j], fnArg.selected) # {}}})

\* teams 1 and 2 are selected and meet in the one match: player 1 of the
\* home side has a cell, player 3 of the away side has none
C35_Witness ==
  /\ fnRes # Null
  /\ fnArg.selected = <<1, 2>>
  /\ Len(fnArg.matches) = 1
  /\ fnArg.matches[1].homeTeam.id = 1 /\ fnArg.matches[1].awayTeam.id = 2
  /\ PlaysOn(3, fnArg.matches[1].awayTeam)
  /\ HasCell(fnRes.value.usage, 1, fnArg.matches[1].week)
  /\ ~HasCell(fnRes.value.usage, 3, fnArg.matches[1].week)
  /\ "3" \notin DOMAIN fnRes.value.players

====
